---- MODULE Spec2Model ----
(***************************************************************************)
(* A model of lf2_parse: the tree-walking driver (ObjectDataParser), the   *)
(* typed records built from the syntax tree (SpriteFile, Element, Frame,   *)
(* Frames) and the coded tag types (BdyKind, Effect, CPointKind,           *)
(* OPointKind, WPointKind).                                                *)
(*                                                                         *)
(* Text is a sequence of one-character strings, so that parsing a number   *)
(* is computed digit by digit.  A syntax node (pest `Pair`) is a record    *)
(*   [rule, str, pos, inner]                                               *)
(* where `rule` is its Rule, `str` its text (only value nodes carry one),  *)
(* `pos` the start of its span and `inner` the sequence of its children.   *)
(* A `Result` is [ok |-> TRUE, val |-> v] or [ok |-> FALSE, err |-> e].    *)
(***************************************************************************)
EXTENDS Integers, Sequences, FiniteSets, TLC

VARIABLES
    pc,      \* position of the call under observation
    input,   \* its argument: a text or a syntax node
    acc,     \* the accumulator threaded through parse_as_type's try_fold
    idx,     \* number of (child, sub-parser) pairs the zip has yielded
    calls,   \* the sub-parser invocations made so far, in order
    result   \* <<>> while running, <<r>> once the call has returned r

vars == <<pc, input, acc, idx, calls, result>>

(***************************************************************************)
(* Bounds of the model.                                                    *)
(***************************************************************************)
\* Tag codes are drawn from -MaxCode .. MaxCode.
MaxCode == 2001

\* A SpriteFile node has at most MaxChildren children.
MaxChildren == 6

\* An element node holds at most MaxElementTags tags.
MaxElementTags == 2

\* A frame body holds at most MaxFrameExtras tags or elements before, and as
\* many after, the tags every frame needs.
MaxFrameExtras == 1

\* A Frames node holds at most MaxFrames frames, numbered 0..MaxFrameNumber.
MaxFrames == 3

MaxFrameNumber == 2

\* Header fields left out of a header node, and sprite files in it.
MaxHeaderMissing == 2

MaxHeaderFiles == 1

\* Pairs that follow the Object pair in what the grammar yields.
MaxSurplus == 2

\* The most tags of an element under SpecFields.
MaxFieldTags == 2

\* The most bytes of a file under SpecOpen, and the most files named on a
\* command line.
MaxFileBytes == 2

MaxArgs == 2

\* The most children of a tag node under SpecValue.
MaxValueChildren == 2

\* A header tag's value starts at column 1 .. MaxHeaderTagPos + 1 under
\* SpecHeaderTag.
MaxHeaderTagPos == 1

\* A Frames node under SpecCapacity has up to FRAME_COUNT_MAX + MaxOverCapacity
\* frames.
MaxOverCapacity == 2

\* The smallest frame number under SpecCapacity is 0 .. MaxFirstNumber.
MaxFirstNumber == 3

\* The most frames of a Frames node under SpecDuplicates; the fewest is the
\* four that two duplicated numbers need.
MaxDuplicateFrames == 4

\* Under SpecAbs a FrameNumberNext or a Pic holds one of -MaxMagnitude ..
\* MaxMagnitude, or one of the ends of the isize range.
MaxMagnitude == 12

\* The most `wait` tags of a frame under SpecWait.
MaxWaitTags == 2

(***************************************************************************)
(* Result, Option.                                                         *)
(***************************************************************************)
Ok(v) == [ok |-> TRUE, val |-> v]

Err(e) == [ok |-> FALSE, err |-> e]

None == <<>>

Some(v) == <<v>>

(***************************************************************************)
(* Text and integer conversion.                                            *)
(***************************************************************************)
Digits == <<"0", "1", "2", "3", "4", "5", "6", "7", "8", "9">>

IsDigit(c) == \E i \in DOMAIN Digits : Digits[i] = c

DigitValue(c) == (CHOOSE i \in DOMAIN Digits : Digits[i] = c) - 1

RECURSIVE DigitsValue(_)
DigitsValue(ds) ==
    IF ds = <<>> THEN 0
    ELSE DigitsValue(SubSeq(ds, 1, Len(ds) - 1)) * 10 + DigitValue(ds[Len(ds)])

\* `s.parse::<T>()` for an integer type T (signed or not).  Every text of the
\* model has fewer than ten digits, so the overflow arms are never taken.
ParseInt(s, signed) ==
    IF s = <<>> THEN Err("Empty")
    ELSE IF Len(s) = 1 /\ s[1] \in {"+", "-"} THEN Err("InvalidDigit")
    ELSE LET neg == signed /\ s[1] = "-"
             ds  == IF s[1] = "+" \/ neg THEN Tail(s) ELSE s
         IN  IF \A i \in DOMAIN ds : IsDigit(ds[i])
             THEN Ok(IF neg THEN 0 - DigitsValue(ds) ELSE DigitsValue(ds))
             ELSE Err("InvalidDigit")

RECURSIVE NatToText(_)
NatToText(n) ==
    IF n < 10 THEN <<Digits[n + 1]>>
    ELSE NatToText(n \div 10) \o <<Digits[(n % 10) + 1]>>

\* `{}` of an integer.
IntToText(n) == IF n < 0 THEN <<"-">> \o NatToText(0 - n) ELSE NatToText(n)

(***************************************************************************)
(* Syntax nodes.                                                           *)
(***************************************************************************)
Node(rule, inner) == [rule |-> rule, str |-> <<>>, pos |-> 0, inner |-> inner]

\* The value child of a tag: a leaf carrying the text.
ValueNode(text) == [rule |-> "Value", str |-> text, pos |-> 0, inner |-> <<>>]

\* A tag node `rule` with its value child.
TagNode(rule, text) == Node(rule, <<ValueNode(text)>>)

At(node, p) == [node EXCEPT !.pos = p]

(***************************************************************************)
(* ObjectDataParser (src/object_data_parser.rs).                           *)
(*                                                                         *)
(* Sub-parsers are function pointers in the source; here they are names,   *)
(* applied by Call.  A list of sub-parsers is a slice or `Iterator::cycle` *)
(* of a slice.                                                             *)
(***************************************************************************)
Slice(fns) == [list |-> fns, cycle |-> FALSE]

Cycle(fns) == [list |-> fns, cycle |-> TRUE]

RECURSIVE Call(_, _, _)

\* Whether `pairs.zip(subrule_fns)` yields an i-th item.
ZipHas(pairs, fns, i) ==
    /\ i <= Len(pairs)
    /\ IF fns.cycle THEN Len(fns.list) > 0 ELSE i <= Len(fns.list)

SubRuleAt(fns, i) ==
    IF fns.cycle THEN fns.list[((i - 1) % Len(fns.list)) + 1] ELSE fns.list[i]

\* The element of a set of one element.  {Body(x) : x \in {value}} is the
\* body of `let x = value; body`, with the value computed once.
The(S) == CHOOSE x \in S : TRUE

Error_GrammarSingle(rule_expected, pair) ==
    [variant |-> "GrammarSingle", rule_expected |-> rule_expected, pair_found |-> Some(pair)]

\* FoldNext, were a sub-parser's error passed over instead of returned.
FoldNext_SkipErrors(builder, i, pairs, fns) ==
    IF ~ZipHas(pairs, fns, i + 1) THEN [done |-> TRUE, r |-> Ok(builder)]
    ELSE LET r == Call(SubRuleAt(fns, i + 1), builder, pairs[i + 1]) IN
         IF r.ok THEN [done |-> FALSE, builder |-> r.val, i |-> i + 1]
         ELSE [done |-> FALSE, builder |-> builder, i |-> i + 1]

\* One round of `pairs.zip(subrule_fns).try_fold(builder, ..)`: the zip is
\* exhausted and the accumulator is the result, or the next sub-parser runs
\* on the next child and its error, if any, ends the fold.
FoldNext(builder, i, pairs, fns) ==
    IF ~ZipHas(pairs, fns, i + 1) THEN [done |-> TRUE, r |-> Ok(builder)]
    ELSE The({IF r.ok THEN [done |-> FALSE, builder |-> r.val, i |-> i + 1]
              ELSE [done |-> TRUE, r |-> r] :
              r \in {Call(SubRuleAt(fns, i + 1), builder, pairs[i + 1])}})

RECURSIVE TryFold(_, _, _, _)
TryFold(builder, i, pairs, fns) ==
    The({IF n.done THEN n.r ELSE TryFold(n.builder, n.i, pairs, fns) :
         n \in {FoldNext(builder, i, pairs, fns)}})

\* TryFold of the children lo + 1 .. hi, computed by halves: the same fold,
\* with a depth of evaluation that is logarithmic in the number of children.
RECURSIVE TryFoldRange(_, _, _, _, _)
TryFoldRange(builder, lo, hi, pairs, fns) ==
    IF hi <= lo THEN Ok(builder)
    ELSE IF hi = lo + 1 THEN Call(SubRuleAt(fns, hi), builder, pairs[hi])
    ELSE The({IF left.ok THEN TryFoldRange(left.val, (lo + hi) \div 2, hi, pairs, fns)
              ELSE left :
              left \in {TryFoldRange(builder, lo, (lo + hi) \div 2, pairs, fns)}})

\* The number of items `pairs.zip(subrule_fns)` yields.
ZipLen(pairs, fns) ==
    IF fns.cycle THEN (IF Len(fns.list) > 0 THEN Len(pairs) ELSE 0)
    ELSE IF Len(pairs) <= Len(fns.list) THEN Len(pairs) ELSE Len(fns.list)

\* RuleMatches, were the kind of the node never compared.
RuleMatches_Always(pair, rule_expected) == TRUE

\* `pair.as_rule() == rule_expected`
RuleMatches(pair, rule_expected) == pair.rule = rule_expected

ParseAsType(builder, pair, rule_expected, subrule_fns) ==
    IF RuleMatches(pair, rule_expected)
    THEN TryFold(builder, 0, pair.inner, subrule_fns)
    ELSE Err(Error_GrammarSingle(rule_expected, pair))

\* `tag_pair.clone().into_inner().next()`
ParseValue_next(tag_pair) ==
    IF Len(tag_pair.inner) > 0 THEN Some(tag_pair.inner[1]) ELSE None

\* parse_value, were a tag without a value left as it is.
ParseValue_SkipMissing(builder, tag_pair, subrule_fn) ==
    IF ParseValue_next(tag_pair) # None
    THEN Call(subrule_fn, builder, ParseValue_next(tag_pair)[1])
    ELSE Ok(builder)

\* `subrule_fn` is a sub-parser name.
ParseValue(builder, tag_pair, subrule_fn) ==
    IF ParseValue_next(tag_pair) # None
    THEN Call(subrule_fn, builder, ParseValue_next(tag_pair)[1])
    ELSE Err([variant |-> "ValueExpected", tag_pair |-> tag_pair])

\* `pairs.try_fold(builder, f)` of a node's children with one function.
RECURSIVE PairsTryFold(_, _, _, _)
PairsTryFold(builder, i, pairs, fn) ==
    IF i >= Len(pairs) THEN Ok(builder)
    ELSE The({IF r.ok THEN PairsTryFold(r.val, i + 1, pairs, fn) ELSE r :
              r \in {Call(fn, builder, pairs[i + 1])}})

\* A parse that falls back on the default of the type.
ParseIntField_OrDefault(field, value_pair, signed) ==
    LET parsed == ParseInt(value_pair.str, signed) IN
    IF parsed.ok THEN parsed ELSE Ok(0)

\* `value_pair.as_str().parse().map_err(|error| Error::ParseInt {..})`
ParseIntField(field, value_pair, signed) ==
    LET parsed == ParseInt(value_pair.str, signed) IN
    IF parsed.ok THEN parsed
    ELSE Err([variant |-> "ParseInt", field |-> field, value_pair |-> value_pair,
              error |-> parsed.err])

(***************************************************************************)
(* SpriteFile (src/sprite_file.rs).                                        *)
(***************************************************************************)
SpriteFileFields == <<"path", "w", "h", "row", "col">>

SpriteFileBuilder_default ==
    [path |-> None, w |-> None, h |-> None, row |-> None, col |-> None]

\* derive_builder's `build`: the first field never set fails the build.
SpriteFileBuilder_build(builder) ==
    IF \E i \in DOMAIN SpriteFileFields : builder[SpriteFileFields[i]] = None
    THEN LET i == CHOOSE i \in DOMAIN SpriteFileFields :
                      /\ builder[SpriteFileFields[i]] = None
                      /\ \A j \in 1..(i - 1) : builder[SpriteFileFields[j]] # None
         IN  Err([variant |-> "DataBuildFailed", field |-> SpriteFileFields[i]])
    ELSE Ok([path |-> builder.path[1], w |-> builder.w[1], h |-> builder.h[1],
             row |-> builder.row[1], col |-> builder.col[1]])

\* One row per field: the rule of its tag, its parse_<field> function and the
\* parse_<field>_value function that one hands to parse_as_type.
SpriteFileTags ==
    <<[rule |-> "TagFileValue", fn |-> "SpriteFile::parse_path",
       value_fn |-> "SpriteFile::parse_path_value", field |-> "path"],
      [rule |-> "TagW", fn |-> "SpriteFile::parse_w",
       value_fn |-> "SpriteFile::parse_w_value", field |-> "w"],
      [rule |-> "TagH", fn |-> "SpriteFile::parse_h",
       value_fn |-> "SpriteFile::parse_h_value", field |-> "h"],
      [rule |-> "TagRow", fn |-> "SpriteFile::parse_row",
       value_fn |-> "SpriteFile::parse_row_value", field |-> "row"],
      [rule |-> "TagCol", fn |-> "SpriteFile::parse_col",
       value_fn |-> "SpriteFile::parse_col_value", field |-> "col"]>>

\* parse_path, parse_w, parse_h, parse_row, parse_col.
SpriteFile_parse_field(fn, builder, field_pair) ==
    LET tag == SpriteFileTags[CHOOSE i \in DOMAIN SpriteFileTags : SpriteFileTags[i].fn = fn]
    IN  ParseAsType(builder, field_pair, tag.rule, Slice(<<tag.value_fn>>))

\* parse_path_value, parse_w_value, parse_h_value, parse_row_value,
\* parse_col_value.  Parsing a text as a PathBuf never fails; the others parse
\* an unsigned integer.
SpriteFile_parse_field_value(fn, builder, value_pair) ==
    LET tag == SpriteFileTags[CHOOSE i \in DOMAIN SpriteFileTags :
                                  SpriteFileTags[i].value_fn = fn]
        parsed == ParseIntField(tag.field, value_pair, FALSE)
    IN  IF tag.field = "path" THEN Ok([builder EXCEPT !.path = Some(value_pair.str)])
        ELSE IF parsed.ok THEN Ok([builder EXCEPT ![tag.field] = Some(parsed.val)])
        ELSE parsed

\* The sub-parsers SpriteFile::try_from hands to parse_as_type.
SpriteFile_sub_rule_fns ==
    Slice(<<"SpriteFile::parse_path", "SpriteFile::parse_w", "SpriteFile::parse_h",
            "SpriteFile::parse_row", "SpriteFile::parse_col">>)

SpriteFile_try_from(pair) ==
    LET r == ParseAsType(SpriteFileBuilder_default, pair, "SpriteFile", SpriteFile_sub_rule_fns)
    IN  IF r.ok THEN SpriteFileBuilder_build(r.val) ELSE r

(***************************************************************************)
(* isize, FrameNumberNext (src/frame_number_next.rs), Pic                  *)
(* (src/frame/pic.rs).  isize is the isize of a 32-bit target.  A call     *)
(* that can panic has a set of outcomes, [value |-> v] or [panic |-> why], *)
(* one per way the crate can be built.                                     *)
(***************************************************************************)
ISIZE_MAX == 2147483647

ISIZE_MIN == (0 - ISIZE_MAX) - 1

\* isize::abs.  The absolute value of isize::MIN is not an isize: with
\* overflow checks the call panics, without them it returns isize::MIN.
isize_abs(n) ==
    IF n = ISIZE_MIN THEN {[panic |-> "attempt to negate with overflow"], [value |-> ISIZE_MIN]}
    ELSE {[value |-> IF n < 0 THEN 0 - n ELSE n]}

\* `TryFrom::<isize>::try_from(..)` to usize
usize_try_from(n) == IF n < 0 THEN Err("TryFromIntError") ELSE Ok(n)

\* `try_from(self.0.abs()).unwrap_or_else(|e| panic!(message, e))`
AbsOutcomes(n, message) ==
    {IF "panic" \in DOMAIN o THEN o
     ELSE IF usize_try_from(o.value).ok THEN [value |-> usize_try_from(o.value).val]
     ELSE [panic |-> message] : o \in isize_abs(n)}

FrameNumberNext_abs(n) ==
    AbsOutcomes(n, "Failed to convert 'FrameNumberNext' to 'FrameNumber'.")

FrameNumberNext_facing_switch(n) == n < 0

Pic_abs(n) == AbsOutcomes(n, "Failed to convert 'Pic' to 'usize'.")

Pic_facing_switch(n) == n < 0

(***************************************************************************)
(* BdyKind (src/element/bdy/bdy_kind.rs).                                  *)
(***************************************************************************)
BdyKind_Normal == [variant |-> "Normal"]

BdyKind_from_frame_number(value) == [variant |-> "Hostage", freed_frame |-> value]

BdyKind_default == BdyKind_Normal

\* BdyKind_from_str, were the hostage ranges to begin one code late.
BdyKind_from_str_OffByOne(s) ==
    LET parsed == ParseInt(s, TRUE) IN
    IF ~parsed.ok THEN Err([variant |-> "ParseIntError", error |-> parsed.err])
    ELSE LET value == parsed.val IN
         CASE value \in (0 - 1999)..(0 - 1000) -> Ok(BdyKind_from_frame_number(value + 1000))
           [] value \in (0 - 999)..(0 - 1)     -> Err([variant |-> "InvalidValue", value |-> value])
           [] value = 0                        -> Ok(BdyKind_Normal)
           [] value \in 1..1000                -> Err([variant |-> "InvalidValue", value |-> value])
           [] value \in 1001..1999             -> Ok(BdyKind_from_frame_number(value - 1000))
           [] OTHER                            -> Err([variant |-> "InvalidValue", value |-> value])

BdyKind_from_str(s) ==
    LET parsed == ParseInt(s, TRUE) IN
    IF ~parsed.ok THEN Err([variant |-> "ParseIntError", error |-> parsed.err])
    ELSE LET value == parsed.val IN
         CASE value \in (0 - 1999)..(0 - 1000) -> Ok(BdyKind_from_frame_number(value + 1000))
           [] value \in (0 - 999)..(0 - 1)     -> Err([variant |-> "InvalidValue", value |-> value])
           [] value = 0                        -> Ok(BdyKind_Normal)
           [] value \in 1..999                 -> Err([variant |-> "InvalidValue", value |-> value])
           [] value \in 1000..1999             -> Ok(BdyKind_from_frame_number(value - 1000))
           [] OTHER                            -> Err([variant |-> "InvalidValue", value |-> value])

(***************************************************************************)
(* Effect (src/element/effect.rs).                                         *)
(***************************************************************************)
EffectVariants ==
    {"Normal", "Blood", "Fire", "Ice", "Reflect", "Reflects", "FireGround",
     "FireBreath", "FireExplode", "PowerExplode", "Icicle"}

\* The discriminants of the enum declaration.
Effect_discriminant(v) ==
    CASE v = "Normal"       -> 0
      [] v = "Blood"        -> 1
      [] v = "Fire"         -> 2
      [] v = "Ice"          -> 3
      [] v = "Reflect"      -> 4
      [] v = "Reflects"     -> 5
      [] v = "FireGround"   -> 20
      [] v = "FireBreath"   -> 21
      [] v = "FireExplode"  -> 22
      [] v = "PowerExplode" -> 23
      [] v = "Icicle"       -> 30

\* Effect_from_str, were two codes of the table exchanged.
Effect_from_str_Swapped(s) ==
    LET parsed == ParseInt(s, FALSE) IN
    IF ~parsed.ok THEN Err([variant |-> "ParseIntError", error |-> parsed.err])
    ELSE LET value == parsed.val IN
         CASE value = 0  -> Ok("Normal")
           [] value = 1  -> Ok("Blood")
           [] value = 2  -> Ok("Fire")
           [] value = 3  -> Ok("Ice")
           [] value = 4  -> Ok("Reflect")
           [] value = 5  -> Ok("Reflects")
           [] value = 20 -> Ok("FireBreath")
           [] value = 21 -> Ok("FireGround")
           [] value = 22 -> Ok("FireExplode")
           [] value = 23 -> Ok("PowerExplode")
           [] value = 30 -> Ok("Icicle")
           [] OTHER      -> Err([variant |-> "InvalidValue", value |-> value])

Effect_from_str(s) ==
    LET parsed == ParseInt(s, FALSE) IN
    IF ~parsed.ok THEN Err([variant |-> "ParseIntError", error |-> parsed.err])
    ELSE LET value == parsed.val IN
         CASE value = 0  -> Ok("Normal")
           [] value = 1  -> Ok("Blood")
           [] value = 2  -> Ok("Fire")
           [] value = 3  -> Ok("Ice")
           [] value = 4  -> Ok("Reflect")
           [] value = 5  -> Ok("Reflects")
           [] value = 20 -> Ok("FireGround")
           [] value = 21 -> Ok("FireBreath")
           [] value = 22 -> Ok("FireExplode")
           [] value = 23 -> Ok("PowerExplode")
           [] value = 30 -> Ok("Icicle")
           [] OTHER      -> Err([variant |-> "InvalidValue", value |-> value])

(***************************************************************************)
(* CPointKind (src/element/c_point/c_point_kind.rs).                       *)
(***************************************************************************)
CPointKindVariants == {"Catcher", "Caught"}

CPointKind_discriminant(v) ==
    CASE v = "Catcher" -> 1
      [] v = "Caught"  -> 2

CPointKind_default == "Catcher"

CPointKind_from_str(s) ==
    LET parsed == ParseInt(s, FALSE) IN
    IF ~parsed.ok THEN Err([variant |-> "ParseIntError", error |-> parsed.err])
    ELSE LET value == parsed.val IN
         CASE value = 1 -> Ok("Catcher")
           [] value = 2 -> Ok("Caught")
           [] OTHER     -> Err([variant |-> "InvalidValue", value |-> value])

(***************************************************************************)
(* OPointKind (src/element/o_point/o_point_kind.rs).                       *)
(***************************************************************************)
OPointKindVariants == {"Spawn", "HoldLightWeapon"}

OPointKind_discriminant(v) ==
    CASE v = "Spawn"           -> 1
      [] v = "HoldLightWeapon" -> 2

OPointKind_default == "Spawn"

OPointKind_from_str(s) ==
    LET parsed == ParseInt(s, FALSE) IN
    IF ~parsed.ok THEN Err([variant |-> "ParseIntError", error |-> parsed.err])
    ELSE LET value == parsed.val IN
         CASE value = 1 -> Ok("Spawn")
           [] value = 2 -> Ok("HoldLightWeapon")
           [] OTHER     -> Err([variant |-> "InvalidValue", value |-> value])

(***************************************************************************)
(* WPointKind (src/element/w_point/w_point_kind.rs).                       *)
(***************************************************************************)
WPointKindVariants == {"Holding", "Held", "Dropping"}

WPointKind_discriminant(v) ==
    CASE v = "Holding"  -> 1
      [] v = "Held"     -> 2
      [] v = "Dropping" -> 3

WPointKind_from_str(s) ==
    LET parsed == ParseInt(s, FALSE) IN
    IF ~parsed.ok THEN Err([variant |-> "ParseIntError", error |-> parsed.err])
    ELSE LET value == parsed.val IN
         CASE value = 1 -> Ok("Holding")
           [] value = 2 -> Ok("Held")
           [] value = 3 -> Ok("Dropping")
           [] OTHER     -> Err([variant |-> "InvalidValue", value |-> value])

(***************************************************************************)
(* Bdy (src/element/bdy.rs).                                               *)
(***************************************************************************)
\* `let v = ..parse().map_err(..)?; rec.name = v; Ok(rec)`
Assign(rec, name, parsed) ==
    IF parsed.ok THEN Ok([rec EXCEPT ![name] = parsed.val]) ELSE parsed

Bdy_default == [kind |-> BdyKind_default, x |-> 0, y |-> 0, w |-> 0, h |-> 0]

Bdy_parse_tags(bdy, bdy_data_pair) ==
    PairsTryFold(bdy, 0, bdy_data_pair.inner, "Bdy::parse_tag")

Bdy_parse_tag(bdy, bdy_tag_pair) ==
    ParseAsType(bdy, bdy_tag_pair, "BdyTag", Slice(<<"Bdy::parse_tag_value">>))

Bdy_parse_tag_value(bdy, bdy_tag_pair) ==
    CASE bdy_tag_pair.rule = "TagKind" -> ParseValue(bdy, bdy_tag_pair, "Bdy::parse_kind_value")
      [] bdy_tag_pair.rule = "TagX"    -> ParseValue(bdy, bdy_tag_pair, "Bdy::parse_x_value")
      [] bdy_tag_pair.rule = "TagY"    -> ParseValue(bdy, bdy_tag_pair, "Bdy::parse_y_value")
      [] bdy_tag_pair.rule = "TagW"    -> ParseValue(bdy, bdy_tag_pair, "Bdy::parse_w_value")
      [] bdy_tag_pair.rule = "TagH"    -> ParseValue(bdy, bdy_tag_pair, "Bdy::parse_h_value")
      [] OTHER                         -> Ok(bdy)

Bdy_parse_kind_value(bdy, value_pair) ==
    LET kind == BdyKind_from_str(value_pair.str) IN
    Assign(bdy, "kind",
           IF kind.ok THEN kind
           ELSE Err([variant |-> "ParseBdyKind", value_pair |-> value_pair,
                     error |-> kind.err]))

Bdy_parse_x_value(bdy, value_pair) ==
    Assign(bdy, "x", ParseIntField("x", value_pair, TRUE))

Bdy_parse_y_value(bdy, value_pair) ==
    Assign(bdy, "y", ParseIntField("y", value_pair, TRUE))

Bdy_parse_w_value(bdy, value_pair) ==
    Assign(bdy, "w", ParseIntField("w", value_pair, FALSE))

Bdy_parse_h_value(bdy, value_pair) ==
    Assign(bdy, "h", ParseIntField("h", value_pair, FALSE))

Bdy_try_from(pair) ==
    ParseAsType(Bdy_default, pair, "Bdy", Slice(<<"Bdy::parse_tags">>))

(***************************************************************************)
(* BPoint (src/element/b_point.rs).                                        *)
(***************************************************************************)
BPoint_default == [x |-> 0, y |-> 0]

BPoint_parse_tags(b_point, b_point_data_pair) ==
    PairsTryFold(b_point, 0, b_point_data_pair.inner, "BPoint::parse_tag")

BPoint_parse_tag(b_point, b_point_tag_pair) ==
    ParseAsType(b_point, b_point_tag_pair, "BPointTag", Slice(<<"BPoint::parse_tag_value">>))

BPoint_parse_tag_value(b_point, b_point_tag_pair) ==
    CASE b_point_tag_pair.rule = "TagX" ->
             ParseValue(b_point, b_point_tag_pair, "BPoint::parse_x_value")
      [] b_point_tag_pair.rule = "TagY" ->
             ParseValue(b_point, b_point_tag_pair, "BPoint::parse_y_value")
      [] OTHER -> Ok(b_point)

BPoint_parse_x_value(b_point, value_pair) ==
    Assign(b_point, "x", ParseIntField("x", value_pair, TRUE))

BPoint_parse_y_value(b_point, value_pair) ==
    Assign(b_point, "y", ParseIntField("y", value_pair, TRUE))

BPoint_try_from(pair) ==
    ParseAsType(BPoint_default, pair, "BPoint", Slice(<<"BPoint::parse_tags">>))

(***************************************************************************)
(* WPoint (src/element/w_point.rs).                                        *)
(***************************************************************************)
\* WPoint derives Default; the Default of WPointKind is declared outside the
\* files at hand: the first variant.
WPointKind_default == "Holding"

WPoint_default ==
    [kind |-> WPointKind_default, x |-> 0, y |-> 0, weapon_act |-> 0,
     attacking |-> 0, d_vx |-> 0, d_vy |-> 0]

WPoint_parse_tags(w_point, w_point_data_pair) ==
    PairsTryFold(w_point, 0, w_point_data_pair.inner, "WPoint::parse_tag")

WPoint_parse_tag(w_point, w_point_tag_pair) ==
    ParseAsType(w_point, w_point_tag_pair, "WPointTag", Slice(<<"WPoint::parse_tag_value">>))

WPoint_parse_tag_value(w_point, w_point_tag_pair) ==
    CASE w_point_tag_pair.rule = "TagKind" ->
             ParseValue(w_point, w_point_tag_pair, "WPoint::parse_kind_value")
      [] w_point_tag_pair.rule = "TagX" ->
             ParseValue(w_point, w_point_tag_pair, "WPoint::parse_x_value")
      [] w_point_tag_pair.rule = "TagY" ->
             ParseValue(w_point, w_point_tag_pair, "WPoint::parse_y_value")
      [] w_point_tag_pair.rule = "TagWeaponAct" ->
             ParseValue(w_point, w_point_tag_pair, "WPoint::parse_weapon_act_value")
      [] w_point_tag_pair.rule = "TagAttacking" ->
             ParseValue(w_point, w_point_tag_pair, "WPoint::parse_attacking_value")
      [] w_point_tag_pair.rule = "TagDVx" ->
             ParseValue(w_point, w_point_tag_pair, "WPoint::parse_d_vx_value")
      [] w_point_tag_pair.rule = "TagDVy" ->
             ParseValue(w_point, w_point_tag_pair, "WPoint::parse_d_vy_value")
      [] OTHER -> Ok(w_point)

WPoint_parse_kind_value(w_point, value_pair) ==
    LET kind == WPointKind_from_str(value_pair.str) IN
    Assign(w_point, "kind",
           IF kind.ok THEN kind
           ELSE Err([variant |-> "ParseWPointKind", value_pair |-> value_pair,
                     error |-> kind.err]))

WPoint_parse_x_value(w_point, value_pair) ==
    Assign(w_point, "x", ParseIntField("x", value_pair, TRUE))

WPoint_parse_y_value(w_point, value_pair) ==
    Assign(w_point, "y", ParseIntField("y", value_pair, TRUE))

WPoint_parse_weapon_act_value(w_point, value_pair) ==
    LET weapon_act == ParseInt(value_pair.str, TRUE) IN
    Assign(w_point, "weapon_act",
           IF weapon_act.ok THEN weapon_act
           ELSE Err([variant |-> "ParseWeaponAct", value_pair |-> value_pair,
                     error |-> weapon_act.err]))

WPoint_parse_attacking_value(w_point, value_pair) ==
    LET attacking == ParseInt(value_pair.str, FALSE) IN
    Assign(w_point, "attacking",
           IF attacking.ok THEN attacking
           ELSE Err([variant |-> "ParseWeaponStrengthIndex", value_pair |-> value_pair,
                     error |-> attacking.err]))

WPoint_parse_d_vx_value(w_point, value_pair) ==
    Assign(w_point, "d_vx", ParseIntField("dvx", value_pair, TRUE))

WPoint_parse_d_vy_value(w_point, value_pair) ==
    Assign(w_point, "d_vy", ParseIntField("dvy", value_pair, TRUE))

WPoint_try_from(pair) ==
    ParseAsType(WPoint_default, pair, "WPoint", Slice(<<"WPoint::parse_tags">>))

(***************************************************************************)
(* Itr, CPoint and OPoint (src/element/itr.rs, c_point.rs, o_point.rs).    *)
(* The three parsers have one shape: parse_tags folds parse_tag over the   *)
(* tags, parse_tag is parse_as_type with parse_tag_value, parse_tag_value  *)
(* matches the rule of the tag and hands parse_<field>_value to            *)
(* parse_value.  Each is a table of its tags and the operators below take  *)
(* the element's name.                                                     *)
(***************************************************************************)
TaggedKinds == {"Itr", "CPoint", "OPoint"}

\* The element whose function `kind::suffix` the name fn is.
TaggedOf(fn, suffix) == CHOOSE k \in TaggedKinds : fn = k \o suffix

\* The discriminants the ItrKind enum declares.
ItrKindCodes == (0..11) \cup {14, 15, 16}

\* ItrKind's FromStr and Default, and Effect's Default, are declared outside
\* the files at hand: the code table, and the variant of code 0.
ItrKind_from_str(s) ==
    LET parsed == ParseInt(s, FALSE) IN
    IF ~parsed.ok THEN Err([variant |-> "ParseIntError", error |-> parsed.err])
    ELSE IF parsed.val \in ItrKindCodes THEN parsed
    ELSE Err([variant |-> "InvalidValue", value |-> parsed.val])

ItrKind_default == 0

Effect_default == "Normal"

Z_WIDTH_DEFAULT == 13

\* OPointFacingDir's Default is declared outside the files at hand.
OPointFacing_default == [count |-> 0, direction |-> "ParentSame"]

\* from_str, were every value unpacked the same way.
OPointFacing_from_str_Packed(s) ==
    LET parsed == ParseInt(s, FALSE)
        value  == parsed.val
    IN  IF ~parsed.ok THEN parsed
        ELSE Ok([count |-> value \div 10,
                 direction |-> IF value % 2 = 0 THEN "ParentSame" ELSE "ParentOpposite"])

\* `value & 1 == 0` is the parity of the value.
OPointFacing_from_str(s) ==
    LET parsed == ParseInt(s, FALSE)
        value  == parsed.val
    IN  IF ~parsed.ok THEN parsed
        ELSE Ok(CASE value = 0  -> [count |-> 1, direction |-> "ParentSame"]
                  [] value = 1  -> [count |-> 1, direction |-> "ParentOpposite"]
                  [] value = 10 -> [count |-> 1, direction |-> "Right"]
                  [] OTHER      -> [count |-> value \div 10,
                                    direction |-> IF value % 2 = 0 THEN "ParentSame"
                                                  ELSE "ParentOpposite"])

\* One row per tag: the rule of the tag, the parse_<field>_value function,
\* the field the value is stored in, the type the text is parsed as, and the
\* name the value parser gives the field in its error (for a type with an
\* error of its own, the variant of that error).
ItrTags ==
    <<[rule |-> "TagKind", value_fn |-> "Itr::parse_kind_value", field |-> "kind",
       type |-> "ItrKind", name |-> "ParseItrKind"],
      [rule |-> "TagX", value_fn |-> "Itr::parse_x_value", field |-> "x",
       type |-> "i32", name |-> "x"],
      [rule |-> "TagY", value_fn |-> "Itr::parse_y_value", field |-> "y",
       type |-> "i32", name |-> "y"],
      [rule |-> "TagW", value_fn |-> "Itr::parse_w_value", field |-> "w",
       type |-> "u32", name |-> "w"],
      [rule |-> "TagH", value_fn |-> "Itr::parse_h_value", field |-> "h",
       type |-> "u32", name |-> "h"],
      [rule |-> "TagZWidth", value_fn |-> "Itr::parse_z_width_value", field |-> "z_width",
       type |-> "u32", name |-> "zwidth"],
      [rule |-> "TagDVx", value_fn |-> "Itr::parse_d_vx_value", field |-> "d_vx",
       type |-> "i64", name |-> "d_vx"],
      [rule |-> "TagDVy", value_fn |-> "Itr::parse_d_vy_value", field |-> "d_vy",
       type |-> "i64", name |-> "d_vy"],
      [rule |-> "TagARest", value_fn |-> "Itr::parse_a_rest_value", field |-> "a_rest",
       type |-> "u32", name |-> "arest"],
      [rule |-> "TagVRest", value_fn |-> "Itr::parse_v_rest_value", field |-> "v_rest",
       type |-> "u32", name |-> "vrest"],
      [rule |-> "TagFall", value_fn |-> "Itr::parse_fall_value", field |-> "fall",
       type |-> "i32", name |-> "fall"],
      [rule |-> "TagBDefend", value_fn |-> "Itr::parse_b_defend_value", field |-> "b_defend",
       type |-> "i32", name |-> "b_defend"],
      [rule |-> "TagInjury", value_fn |-> "Itr::parse_injury_value", field |-> "injury",
       type |-> "i32", name |-> "injury"],
      [rule |-> "TagEffect", value_fn |-> "Itr::parse_effect_value", field |-> "effect",
       type |-> "Effect", name |-> "ParseItrEffect"],
      [rule |-> "TagCatchingAct", value_fn |-> "Itr::parse_catching_act_value",
       field |-> "catching_act", type |-> "isize", name |-> "catching_act"],
      [rule |-> "TagCaughtAct", value_fn |-> "Itr::parse_caught_act_value",
       field |-> "caught_act", type |-> "isize", name |-> "caught_act"]>>

\* `z_width: Self::Z_WIDTH_DEFAULT, ..Default::default()` field by field.
Itr_default_Derived ==
    [kind |-> ItrKind_default, x |-> 0, y |-> 0, w |-> 0, h |-> 0, z_width |-> 0,
     d_vx |-> 0, d_vy |-> 0, a_rest |-> 0, v_rest |-> 0, fall |-> 0, b_defend |-> 0,
     injury |-> 0, effect |-> Effect_default, catching_act |-> 0, caught_act |-> 0]

Itr_default ==
    [kind |-> ItrKind_default, x |-> 0, y |-> 0, w |-> 0, h |-> 0,
     z_width |-> Z_WIDTH_DEFAULT, d_vx |-> 0, d_vy |-> 0, a_rest |-> 0, v_rest |-> 0,
     fall |-> 0, b_defend |-> 0, injury |-> 0, effect |-> Effect_default,
     catching_act |-> 0, caught_act |-> 0]

CPointTags ==
    <<[rule |-> "TagKind", value_fn |-> "CPoint::parse_kind_value", field |-> "kind",
       type |-> "CPointKind", name |-> "ParseCPointKind"],
      [rule |-> "TagX", value_fn |-> "CPoint::parse_x_value", field |-> "x",
       type |-> "i32", name |-> "x"],
      [rule |-> "TagY", value_fn |-> "CPoint::parse_y_value", field |-> "y",
       type |-> "i32", name |-> "y"],
      [rule |-> "TagCover", value_fn |-> "CPoint::parse_cover_value", field |-> "cover",
       type |-> "bool", name |-> "cover"],
      [rule |-> "TagDecrease", value_fn |-> "CPoint::parse_decrease_value",
       field |-> "decrease", type |-> "i32", name |-> "decrease"],
      [rule |-> "TagDirControl", value_fn |-> "CPoint::parse_dir_control_value",
       field |-> "dir_control", type |-> "bool", name |-> "dir_control"],
      [rule |-> "TagHurtable", value_fn |-> "CPoint::parse_hurtable_value",
       field |-> "hurtable", type |-> "bool", name |-> "hurtable"],
      [rule |-> "TagInjury", value_fn |-> "CPoint::parse_injury_value", field |-> "injury",
       type |-> "i32", name |-> "injury"],
      [rule |-> "TagAAction", value_fn |-> "CPoint::parse_a_action_value",
       field |-> "a_action", type |-> "isize", name |-> "a_action"],
      [rule |-> "TagJAction", value_fn |-> "CPoint::parse_j_action_value",
       field |-> "j_action", type |-> "isize", name |-> "j_action"],
      [rule |-> "TagVAction", value_fn |-> "CPoint::parse_v_action_value",
       field |-> "v_action", type |-> "usize", name |-> "v_action"],
      [rule |-> "TagTAction", value_fn |-> "CPoint::parse_t_action_value",
       field |-> "t_action", type |-> "isize", name |-> "t_action"],
      [rule |-> "TagThrowInjury", value_fn |-> "CPoint::parse_throw_injury_value",
       field |-> "throw_injury", type |-> "i32", name |-> "throw_injury"],
      [rule |-> "TagThrowVx", value_fn |-> "CPoint::parse_throw_vx_value",
       field |-> "throw_vx", type |-> "i32", name |-> "throw_vx"],
      [rule |-> "TagThrowVy", value_fn |-> "CPoint::parse_throw_vy_value",
       field |-> "throw_vy", type |-> "i32", name |-> "throw_vy"],
      [rule |-> "TagThrowVz", value_fn |-> "CPoint::parse_throw_vz_value",
       field |-> "throw_vz", type |-> "i32", name |-> "throw_vz"],
      [rule |-> "TagFrontHurtAct", value_fn |-> "CPoint::parse_front_hurt_act_value",
       field |-> "front_hurt_act", type |-> "isize", name |-> "front_hurt_act"],
      [rule |-> "TagBackHurtAct", value_fn |-> "CPoint::parse_back_hurt_act_value",
       field |-> "back_hurt_act", type |-> "isize", name |-> "back_hurt_act"]>>

\* #[derive(Default)]
CPoint_default ==
    [kind |-> CPointKind_default, x |-> 0, y |-> 0, cover |-> FALSE, decrease |-> 0,
     dir_control |-> FALSE, hurtable |-> FALSE, injury |-> 0, a_action |-> 0,
     j_action |-> 0, v_action |-> 0, t_action |-> 0, throw_injury |-> 0,
     throw_vx |-> 0, throw_vy |-> 0, throw_vz |-> 0, front_hurt_act |-> 0,
     back_hurt_act |-> 0]

OPointTags ==
    <<[rule |-> "TagKind", value_fn |-> "OPoint::parse_kind_value", field |-> "kind",
       type |-> "OPointKind", name |-> "ParseOPointKind"],
      [rule |-> "TagX", value_fn |-> "OPoint::parse_x_value", field |-> "x",
       type |-> "i32", name |-> "x"],
      [rule |-> "TagY", value_fn |-> "OPoint::parse_y_value", field |-> "y",
       type |-> "i32", name |-> "y"],
      [rule |-> "TagAction", value_fn |-> "OPoint::parse_action_value", field |-> "action",
       type |-> "OPointAction", name |-> "ParseOPointAction"],
      [rule |-> "TagDVx", value_fn |-> "OPoint::parse_d_vx_value", field |-> "d_vx",
       type |-> "i64", name |-> "dvx"],
      [rule |-> "TagDVy", value_fn |-> "OPoint::parse_d_vy_value", field |-> "d_vy",
       type |-> "i64", name |-> "dvy"],
      [rule |-> "TagOid", value_fn |-> "OPoint::parse_oid_value", field |-> "object_id",
       type |-> "usize", name |-> "oid"],
      [rule |-> "TagFacing", value_fn |-> "OPoint::parse_facing_value", field |-> "facing",
       type |-> "OPointFacing", name |-> "facing"]>>

\* #[derive(Default)]
OPoint_default ==
    [kind |-> OPointKind_default, x |-> 0, y |-> 0, action |-> 0, d_vx |-> 0,
     d_vy |-> 0, object_id |-> 0, facing |-> OPointFacing_default]

TaggedTags(kind) ==
    CASE kind = "Itr"    -> ItrTags
      [] kind = "CPoint" -> CPointTags
      [] kind = "OPoint" -> OPointTags

Tagged_default(kind) ==
    CASE kind = "Itr"    -> Itr_default
      [] kind = "CPoint" -> CPoint_default
      [] kind = "OPoint" -> OPoint_default

\* `from_str(..).map_err(|error| Error::<variant> { value_pair, error })`
OwnError(variant, value_pair, parsed) ==
    IF parsed.ok THEN parsed
    ELSE Err([variant |-> variant, value_pair |-> value_pair, error |-> parsed.err])

\* `value_pair.as_str().parse()` at the type of the field; a flag parses a
\* u32 and is `value != 0`.
Tagged_parse(tag, value_pair) ==
    CASE tag.type \in {"i32", "i64", "isize"} -> ParseIntField(tag.name, value_pair, TRUE)
      [] tag.type \in {"u32", "usize"} -> ParseIntField(tag.name, value_pair, FALSE)
      [] tag.type = "bool" ->
             The({IF r.ok THEN Ok(r.val # 0) ELSE r :
                  r \in {ParseIntField(tag.name, value_pair, FALSE)}})
      [] tag.type = "OPointFacing" ->
             The({IF r.ok THEN r
                  ELSE Err([variant |-> "ParseInt", field |-> tag.name,
                            value_pair |-> value_pair, error |-> r.err]) :
                  r \in {OPointFacing_from_str(value_pair.str)}})
      [] tag.type = "OPointAction" ->
             OwnError(tag.name, value_pair, ParseInt(value_pair.str, TRUE))
      [] tag.type = "ItrKind" ->
             OwnError(tag.name, value_pair, ItrKind_from_str(value_pair.str))
      [] tag.type = "Effect" ->
             OwnError(tag.name, value_pair, Effect_from_str(value_pair.str))
      [] tag.type = "CPointKind" ->
             OwnError(tag.name, value_pair, CPointKind_from_str(value_pair.str))
      [] tag.type = "OPointKind" ->
             OwnError(tag.name, value_pair, OPointKind_from_str(value_pair.str))

\* parse_kind_value .., were the value stored in a fresh element.
Tagged_parse_field_value_Fresh(kind, fn, element, value_pair) ==
    LET tags == TaggedTags(kind)
        tag  == tags[CHOOSE i \in DOMAIN tags : tags[i].value_fn = fn]
    IN  Assign(Tagged_default(kind), tag.field, Tagged_parse(tag, value_pair))

\* parse_kind_value .. of Itr, CPoint and OPoint.
Tagged_parse_field_value(kind, fn, element, value_pair) ==
    LET tags == TaggedTags(kind)
        tag  == tags[CHOOSE i \in DOMAIN tags : tags[i].value_fn = fn]
    IN  Assign(element, tag.field, Tagged_parse(tag, value_pair))

\* The `match` on the tag's rule; `_ => itr` (c_point, o_point) for any
\* other rule.
Tagged_parse_tag_value_Reset(kind, element, tag_pair) ==
    LET tags == TaggedTags(kind) IN
    IF \E i \in DOMAIN tags : tags[i].rule = tag_pair.rule
    THEN ParseValue(element, tag_pair,
                    tags[CHOOSE i \in DOMAIN tags : tags[i].rule = tag_pair.rule].value_fn)
    ELSE Ok(Tagged_default(kind))

Tagged_parse_tag_value(kind, element, tag_pair) ==
    LET tags == TaggedTags(kind) IN
    IF \E i \in DOMAIN tags : tags[i].rule = tag_pair.rule
    THEN ParseValue(element, tag_pair,
                    tags[CHOOSE i \in DOMAIN tags : tags[i].rule = tag_pair.rule].value_fn)
    ELSE Ok(element)

Tagged_parse_tag(kind, element, tag_pair) ==
    ParseAsType(element, tag_pair, kind \o "Tag", Slice(<<kind \o "::parse_tag_value">>))

Tagged_parse_tags(kind, element, data_pair) ==
    PairsTryFold(element, 0, data_pair.inner, kind \o "::parse_tag")

\* Itr::try_from, CPoint::try_from, OPoint::try_from.
Tagged_try_from(kind, pair) ==
    ParseAsType(Tagged_default(kind), pair, kind, Slice(<<kind \o "::parse_tags">>))

(***************************************************************************)
(* Element (src/element.rs).                                               *)
(***************************************************************************)
ElementKinds == {"Bdy", "BPoint", "CPoint", "Itr", "OPoint", "WPoint"}

Element(variant, value) == [variant |-> variant, value |-> value]

\* `result.map(Self::Variant)`
MapElement(variant, r) == IF r.ok THEN Ok(Element(variant, r.val)) ELSE r

\* `Option::or`
OptionOr(a, b) == IF a # None THEN a ELSE b

\* CPoint, Itr and OPoint children return the accumulator as it came; Bdy,
\* BPoint and WPoint children are parsed and `element.or(Some(parsed))` kept.
Element_parse_element(element, element_pair) ==
    IF element_pair.rule \in {"CPoint", "Itr", "OPoint"} THEN Ok(element)
    ELSE LET element_parsed ==
                 CASE element_pair.rule = "Bdy" ->
                          MapElement("Bdy", Bdy_try_from(element_pair))
                   [] element_pair.rule = "BPoint" ->
                          MapElement("BPoint", BPoint_try_from(element_pair))
                   [] element_pair.rule = "WPoint" ->
                          MapElement("WPoint", WPoint_try_from(element_pair))
                   [] OTHER ->
                          Err([variant |-> "Grammar",
                               rules_expected |->
                                   <<"Bdy", "BPoint", "CPoint", "Itr", "OPoint", "WPoint">>,
                               pair_found |-> Some(element_pair)])
         IN  IF element_parsed.ok
             THEN Ok(OptionOr(element, Some(element_parsed.val)))
             ELSE element_parsed

Element_sub_rule_fns == Slice(<<"Element::parse_element">>)

\* `.and_then(|element| element.ok_or_else(|| Error::ElementBuildNone(pair)))`
Element_ok_or_else(r, pair) ==
    IF ~r.ok THEN r
    ELSE IF r.val = None THEN Err([variant |-> "ElementBuildNone", pair |-> pair])
    ELSE Ok(r.val[1])

Element_try_from(pair) ==
    Element_ok_or_else(ParseAsType(None, pair, "Element", Element_sub_rule_fns), pair)

(***************************************************************************)
(* Wait (src/wait.rs) and State (src/state.rs).                            *)
(***************************************************************************)
WAIT_DEFAULT == 1

\* The digits of u32::MAX, 4294967295.
U32_MAX_DIGITS == <<"4", "2", "9", "4", "9", "6", "7", "2", "9", "5">>

RECURSIVE StripZeros(_)
StripZeros(ds) == IF ds # <<>> /\ ds[1] = "0" THEN StripZeros(Tail(ds)) ELSE ds

\* The number written with the digits ds is above the one written with max.
ExceedsDigits(ds, max) ==
    LET d == StripZeros(ds) IN
    \/ Len(d) > Len(max)
    \/ /\ Len(d) = Len(max)
       /\ \E i \in 1..Len(d) :
              /\ \A j \in 1..(i - 1) : d[j] = max[j]
              /\ DigitValue(d[i]) > DigitValue(max[i])

\* `s.parse::<u32>()`: digits that go past u32::MAX are PosOverflow.  The
\* value is an integer of the model, so no text of the model is a number
\* from 2^31 to u32::MAX.
u32_from_str(s) ==
    LET ds == IF s # <<>> /\ s[1] = "+" THEN Tail(s) ELSE s IN
    IF ds # <<>> /\ (\A i \in DOMAIN ds : IsDigit(ds[i])) /\ ExceedsDigits(ds, U32_MAX_DIGITS)
    THEN Err("PosOverflow")
    ELSE ParseInt(s, FALSE)

\* from_str, were a zero kept as it is.
Wait_from_str_KeepZero(s) == u32_from_str(s)

\* `NonZeroU32::new(wait).map(Self).unwrap_or(WAIT_DEFAULT)`
Wait_from_str(s) ==
    LET parsed == u32_from_str(s) IN
    IF ~parsed.ok THEN parsed
    ELSE Ok(IF parsed.val = 0 THEN WAIT_DEFAULT ELSE parsed.val)

\* The discriminants the State enum declares.
StateCodes ==
    (0..19) \cup {100, 301, 400, 401, 500, 501, 1700} \cup (1000..1004)
    \cup {2000, 2001, 2004} \cup (3000..3006) \cup (8000..8099) \cup (9995..9999)

\* State's FromStr is declared outside the files at hand; as for the other
\* coded tags, a u32 that is one of the declared codes.  A State is its code.
State_from_str(s) ==
    LET parsed == ParseInt(s, FALSE) IN
    IF ~parsed.ok THEN Err([variant |-> "ParseIntError", error |-> parsed.err])
    ELSE IF parsed.val \in StateCodes THEN Ok(parsed.val)
    ELSE Err([variant |-> "InvalidValue", value |-> parsed.val])

(***************************************************************************)
(* Frame (src/frame.rs).                                                   *)
(***************************************************************************)
\* The fields of Frame, in declaration order.
FrameFields ==
    <<"number", "name", "center_x", "center_y", "d_vx", "d_vy", "d_vz", "hit_a",
      "hit_d", "hit_da", "hit_dj", "hit_fa", "hit_fj", "hit_j", "hit_ja",
      "hit_ua", "hit_uj", "mp", "next_frame", "pic", "sound", "state", "wait">>

\* The fields marked #[builder(default)], with their defaults.
FrameFieldDefaults ==
    [hit_a |-> 0, hit_d |-> 0, hit_da |-> 0, hit_dj |-> 0, hit_fa |-> 0,
     hit_fj |-> 0, hit_j |-> 0, hit_ja |-> 0, hit_ua |-> 0, hit_uj |-> 0,
     mp |-> 0, sound |-> None, wait |-> WAIT_DEFAULT]

FrameBuilder_default == [f \in {FrameFields[i] : i \in DOMAIN FrameFields} |-> None]

\* derive_builder's `build`: a field never set takes its default, and the
\* first one that has none fails the build.
FrameBuilder_build(builder) ==
    LET Missing(i) == /\ builder[FrameFields[i]] = None
                      /\ FrameFields[i] \notin DOMAIN FrameFieldDefaults
    IN  IF \E i \in DOMAIN FrameFields : Missing(i)
        THEN LET i == CHOOSE i \in DOMAIN FrameFields :
                          Missing(i) /\ \A j \in 1..(i - 1) : ~Missing(j)
             IN  Err([variant |-> "DataBuildFailed", field |-> FrameFields[i]])
        ELSE Ok([f \in DOMAIN builder |->
                    IF builder[f] = None THEN FrameFieldDefaults[f] ELSE builder[f][1]])

\* `builder = builder.name(v); Ok(builder)` after a fallible conversion.
Set(builder, name, parsed) ==
    IF parsed.ok THEN Ok([builder EXCEPT ![name] = Some(parsed.val)]) ELSE parsed

Frame_parse_number(builder, frame_number_pair) ==
    ParseAsType(builder, frame_number_pair, "FrameNumber",
                Slice(<<"Frame::parse_number_value">>))

Frame_parse_number_value(builder, value_pair) ==
    Set(builder, "number", ParseIntField("frame number", value_pair, FALSE))

Frame_parse_name(builder, frame_name_pair) ==
    ParseAsType(builder, frame_name_pair, "FrameName", Slice(<<"Frame::parse_name_value">>))

Frame_parse_name_value(builder, value_pair) ==
    Set(builder, "name", Ok(value_pair.str))

\* The closure of parse_data's try_fold.
Frame_parse_data_closure(builder, frame_tag_or_element_pair) ==
    CASE frame_tag_or_element_pair.rule = "FrameTag" ->
             Call("Frame::parse_tag", builder, frame_tag_or_element_pair)
      [] frame_tag_or_element_pair.rule = "Element" -> Ok(builder)
      [] OTHER ->
             Err([variant |-> "Grammar", rule_expected |-> "FrameTag",
                  pair_found |-> Some(frame_tag_or_element_pair)])

Frame_parse_data(builder, frame_data_pair) ==
    PairsTryFold(builder, 0, frame_data_pair.inner, "Frame::parse_data::closure")

Frame_parse_tag(builder, frame_tag_pair) ==
    ParseAsType(builder, frame_tag_pair, "FrameTag", Slice(<<"Frame::parse_tag_value">>))

\* One row per tag of a frame: the rule of the tag, its parse_<field> function,
\* the parse_<field>_value function that one hands to parse_as_type, the
\* builder field the value is stored in, and the name the value parser gives
\* the field in its error.
FrameTags ==
    <<[rule |-> "TagCenterX", fn |-> "Frame::parse_center_x",
       value_fn |-> "Frame::parse_center_x_value", field |-> "center_x", name |-> "centerx"],
      [rule |-> "TagCenterY", fn |-> "Frame::parse_center_y",
       value_fn |-> "Frame::parse_center_y_value", field |-> "center_y", name |-> "centery"],
      [rule |-> "TagDVx", fn |-> "Frame::parse_d_vx",
       value_fn |-> "Frame::parse_d_vx_value", field |-> "d_vx", name |-> "dvx"],
      [rule |-> "TagDVy", fn |-> "Frame::parse_d_vy",
       value_fn |-> "Frame::parse_d_vy_value", field |-> "d_vy", name |-> "dvy"],
      [rule |-> "TagDVz", fn |-> "Frame::parse_d_vz",
       value_fn |-> "Frame::parse_d_vz_value", field |-> "d_vz", name |-> "dvz"],
      [rule |-> "TagHitA", fn |-> "Frame::parse_hit_a",
       value_fn |-> "Frame::parse_hit_a_value", field |-> "hit_a", name |-> "hit_a"],
      [rule |-> "TagHitD", fn |-> "Frame::parse_hit_d",
       value_fn |-> "Frame::parse_hit_d_value", field |-> "hit_d", name |-> "hit_d"],
      [rule |-> "TagHitDa", fn |-> "Frame::parse_hit_da",
       value_fn |-> "Frame::parse_hit_da_value", field |-> "hit_da", name |-> "hit_Da"],
      [rule |-> "TagHitDj", fn |-> "Frame::parse_hit_dj",
       value_fn |-> "Frame::parse_hit_dj_value", field |-> "hit_dj", name |-> "hit_Dj"],
      [rule |-> "TagHitFa", fn |-> "Frame::parse_hit_fa",
       value_fn |-> "Frame::parse_hit_fa_value", field |-> "hit_fa", name |-> "hit_Fa"],
      [rule |-> "TagHitFj", fn |-> "Frame::parse_hit_fj",
       value_fn |-> "Frame::parse_hit_fj_value", field |-> "hit_fj", name |-> "hit_Fj"],
      [rule |-> "TagHitJ", fn |-> "Frame::parse_hit_j",
       value_fn |-> "Frame::parse_hit_j_value", field |-> "hit_j", name |-> "hit_j"],
      [rule |-> "TagHitJa", fn |-> "Frame::parse_hit_ja",
       value_fn |-> "Frame::parse_hit_ja_value", field |-> "hit_ja", name |-> "hit_ja"],
      [rule |-> "TagHitUa", fn |-> "Frame::parse_hit_ua",
       value_fn |-> "Frame::parse_hit_ua_value", field |-> "hit_ua", name |-> "hit_ua"],
      [rule |-> "TagHitUj", fn |-> "Frame::parse_hit_uj",
       value_fn |-> "Frame::parse_hit_uj_value", field |-> "hit_uj", name |-> "hit_uj"],
      [rule |-> "TagMp", fn |-> "Frame::parse_mp",
       value_fn |-> "Frame::parse_mp_value", field |-> "mp", name |-> "mp"],
      [rule |-> "TagNext", fn |-> "Frame::parse_next_frame",
       value_fn |-> "Frame::parse_next_frame_value", field |-> "next_frame", name |-> "next"],
      [rule |-> "TagPic", fn |-> "Frame::parse_pic",
       value_fn |-> "Frame::parse_pic_value", field |-> "pic", name |-> "pic"],
      [rule |-> "TagSound", fn |-> "Frame::parse_sound",
       value_fn |-> "Frame::parse_sound_value", field |-> "sound", name |-> "sound"],
      [rule |-> "TagState", fn |-> "Frame::parse_state",
       value_fn |-> "Frame::parse_state_value", field |-> "state", name |-> "state"],
      [rule |-> "TagWait", fn |-> "Frame::parse_wait",
       value_fn |-> "Frame::parse_wait_value", field |-> "wait", name |-> "wait"]>>

\* The `match` on the tag's rule; `_ => {}` for any other rule.
Frame_parse_tag_value(builder, frame_tag_pair) ==
    IF \E i \in DOMAIN FrameTags : FrameTags[i].rule = frame_tag_pair.rule
    THEN Call(FrameTags[CHOOSE i \in DOMAIN FrameTags :
                            FrameTags[i].rule = frame_tag_pair.rule].fn,
              builder, frame_tag_pair)
    ELSE Ok(builder)

\* parse_center_x .. parse_wait.
Frame_parse_field(fn, builder, field_pair) ==
    LET tag == FrameTags[CHOOSE i \in DOMAIN FrameTags : FrameTags[i].fn = fn]
    IN  ParseAsType(builder, field_pair, tag.rule, Slice(<<tag.value_fn>>))

\* parse_center_x_value .. parse_wait_value.  A sound is a path, which never
\* fails to parse; a state and a wait have their own from_str; every other
\* field parses a signed integer.
Frame_parse_field_value(fn, builder, value_pair) ==
    LET tag   == FrameTags[CHOOSE i \in DOMAIN FrameTags : FrameTags[i].value_fn = fn]
        state == State_from_str(value_pair.str)
        wait  == Wait_from_str(value_pair.str)
    IN  CASE tag.field = "sound" -> Set(builder, "sound", Ok(Some(value_pair.str)))
          [] tag.field = "state" ->
                 Set(builder, "state",
                     IF state.ok THEN state
                     ELSE Err([variant |-> "StateParse", value_pair |-> value_pair,
                               error |-> state.err]))
          [] tag.field = "wait" ->
                 Set(builder, "wait",
                     IF wait.ok THEN wait
                     ELSE Err([variant |-> "ParseInt", field |-> "wait",
                               value_pair |-> value_pair, error |-> wait.err]))
          [] OTHER ->
                 Set(builder, tag.field, ParseIntField(tag.name, value_pair, TRUE))

Frame_sub_rule_fns ==
    Slice(<<"Frame::parse_number", "Frame::parse_name", "Frame::parse_data">>)

\* `.and_then(|builder| builder.build().map_err(Error::DataBuildFailed))`
Frame_and_then_build(r) == IF r.ok THEN FrameBuilder_build(r.val) ELSE r

Frame_try_from(pair) ==
    Frame_and_then_build(ParseAsType(FrameBuilder_default, pair, "Frame", Frame_sub_rule_fns))

(***************************************************************************)
(* Frames (src/frames.rs).  The accumulator is <<frame_pairs, frames>>.    *)
(***************************************************************************)
\* `const FRAME_COUNT_MAX: usize = 400`, given to Vec::with_capacity.
FRAME_COUNT_MAX == 400

\* The capacity of a Vec after a push that made its length len: a full Vec
\* grows to twice its capacity (RawVec::grow_amortized).
Vec_capacity_after_push(capacity, len) ==
    IF len <= capacity THEN capacity
    ELSE IF 2 * capacity >= len THEN 2 * capacity ELSE len

\* parse_frame, were the capacity a limit.
Frames_parse_frame_Capped(acc_in, frame_pair) ==
    LET frame == Frame_try_from(frame_pair) IN
    IF frame.ok /\ Len(acc_in[2]) < FRAME_COUNT_MAX
    THEN Ok(<<Append(acc_in[1], frame_pair), Append(acc_in[2], frame.val)>>)
    ELSE Ok(acc_in)

\* parse_frame, were the node pushed before the frame is tried.
Frames_parse_frame_PairFirst(acc_in, frame_pair) ==
    LET frame == Frame_try_from(frame_pair) IN
    IF frame.ok
    THEN Ok(<<Append(acc_in[1], frame_pair), Append(acc_in[2], frame.val)>>)
    ELSE Ok(<<Append(acc_in[1], frame_pair), acc_in[2]>>)

\* `if let Ok(frame) = Frame::try_from(..) { push; push }` and `Ok(..)`: a
\* frame that fails to parse leaves both lists as they were.
Frames_parse_frame(acc_in, frame_pair) ==
    LET frame == Frame_try_from(frame_pair) IN
    IF frame.ok
    THEN Ok(<<Append(acc_in[1], frame_pair), Append(acc_in[2], frame.val)>>)
    ELSE Ok(acc_in)

\* The indices, in order, of the frames numbered n.
FrameNumberIndices(frames, n) ==
    SelectSeq([i \in 1..Len(frames) |-> i], LAMBDA i : frames[i].number = n)

\* `.filter_map(|index| frame_pairs.get(index).cloned()).collect()`
PairsAt(frame_pairs, indices) ==
    LET found == SelectSeq(indices, LAMBDA i : i <= Len(frame_pairs)) IN
    [k \in 1..Len(found) |-> frame_pairs[found[k]]]

\* Frames_validate, were only the first two colliding nodes reported.
Frames_validate_FirstTwo(acc_in) ==
    LET frame_pairs == acc_in[1]
        frames      == acc_in[2]
        numbers     == {frames[i].number : i \in 1..Len(frames)}
        non_unique  == {n \in numbers : Len(FrameNumberIndices(frames, n)) > 1}
    IN  IF non_unique = {} THEN Ok(frames)
        ELSE LET frame_number == CHOOSE n \in non_unique : \A m \in non_unique : n <= m
             IN  Err([variant |-> "FrameNumberNonUnique",
                      frame_number |-> frame_number,
                      frame_pairs |->
                          PairsAt(frame_pairs,
                                  SubSeq(FrameNumberIndices(frames, frame_number), 1, 2))])

\* Frames_validate, were a number with a single frame taken for a duplicate.
Frames_validate_OffByOne(acc_in) ==
    LET frame_pairs == acc_in[1]
        frames      == acc_in[2]
        numbers     == {frames[i].number : i \in 1..Len(frames)}
        non_unique  == {n \in numbers : Len(FrameNumberIndices(frames, n)) > 0}
    IN  IF non_unique = {} THEN Ok(frames)
        ELSE LET frame_number == CHOOSE n \in non_unique : \A m \in non_unique : n <= m
             IN  Err([variant |-> "FrameNumberNonUnique",
                      frame_number |-> frame_number,
                      frame_pairs |->
                          PairsAt(frame_pairs, FrameNumberIndices(frames, frame_number))])

\* Frames_validate, were the first collision in source order the one reported.
Frames_validate_SourceOrder(acc_in) ==
    LET frame_pairs == acc_in[1]
        frames      == acc_in[2]
        repeats     == {i \in 1..Len(frames) :
                           \E j \in 1..(i - 1) : frames[j].number = frames[i].number}
    IN  IF repeats = {} THEN Ok(frames)
        ELSE LET first == CHOOSE i \in repeats : \A j \in repeats : i <= j
             IN  Err([variant |-> "FrameNumberNonUnique",
                      frame_number |-> frames[first].number,
                      frame_pairs |->
                          PairsAt(frame_pairs,
                                  FrameNumberIndices(frames, frames[first].number))])

\* The BTreeMap from frame number to the indices of its frames is searched in
\* key order for the first number with more than one index.
Frames_validate(acc_in) ==
    LET frame_pairs == acc_in[1]
        frames      == acc_in[2]
        numbers     == {frames[i].number : i \in 1..Len(frames)}
        non_unique  == {n \in numbers : Len(FrameNumberIndices(frames, n)) > 1}
    IN  IF non_unique = {} THEN Ok(frames)
        ELSE LET frame_number == CHOOSE n \in non_unique : \A m \in non_unique : n <= m
             IN  Err([variant |-> "FrameNumberNonUnique",
                      frame_number |-> frame_number,
                      frame_pairs |->
                          PairsAt(frame_pairs, FrameNumberIndices(frames, frame_number))])

Frames_sub_rule_fns == Cycle(<<"Frames::parse_frame">>)

Frames_builder == <<<<>>, <<>>>>

Frames_try_from(pair) ==
    LET r == ParseAsType(Frames_builder, pair, "Frames", Frames_sub_rule_fns) IN
    IF r.ok THEN Frames_validate(r.val) ELSE r

(***************************************************************************)
(* Header (src/header.rs).                                                 *)
(***************************************************************************)
\* str::parse::<f32> on the texts `[+-]digits[.digits]`; the value is kept as
\* the integer num scaled by 10^-scale, without trailing fraction zeros.
\* `nan` in any case, with or without a sign, is the value NaN.  Exponents
\* and `inf` are outside the texts considered.
F32_NAN == [nan |-> TRUE]

\* `==` of two f32: NaN equals nothing, itself included.
F32_eq(a, b) == a # F32_NAN /\ b # F32_NAN /\ a = b

RECURSIVE FloatNorm(_)
FloatNorm(v) ==
    IF v.scale > 0 /\ v.num % 10 = 0
    THEN FloatNorm([num |-> v.num \div 10, scale |-> v.scale - 1])
    ELSE v

ParseFloat(s) ==
    LET signed == s # <<>> /\ s[1] \in {"+", "-"}
        body   == IF signed THEN Tail(s) ELSE s
        dots   == {i \in DOMAIN body : body[i] = "."}
        dot    == IF dots = {} THEN Len(body) + 1 ELSE CHOOSE i \in dots : TRUE
        int    == SubSeq(body, 1, dot - 1)
        frac   == SubSeq(body, dot + 1, Len(body))
        ds     == int \o frac
    IN  IF s = <<>> THEN Err("Empty")
        ELSE IF body \in {<<n, a, m>> : n \in {"n", "N"}, a \in {"a", "A"}, m \in {"n", "N"}}
             THEN Ok(F32_NAN)
        ELSE IF /\ Cardinality(dots) <= 1
                /\ ds # <<>>
                /\ \A i \in DOMAIN ds : IsDigit(ds[i])
             THEN LET mag == DigitsValue(ds) IN
                  Ok(FloatNorm([num   |-> IF s[1] = "-" THEN 0 - mag ELSE mag,
                                scale |-> Len(frac)]))
             ELSE Err("Invalid")

\* The fields of Header, in declaration order.
HeaderFields ==
    <<"name", "head", "small", "file", "walking_frame_rate", "walking_speed",
       "walking_speed_z", "running_frame_rate", "running_speed",
       "running_speed_z", "heavy_walking_speed", "heavy_walking_speed_z",
       "heavy_running_speed", "heavy_running_speed_z", "jump_height",
       "jump_distance", "jump_distance_z", "dash_height", "dash_distance",
       "dash_distance_z", "rowing_height", "rowing_distance">>

HeaderBuilder_default == [f \in {HeaderFields[i] : i \in DOMAIN HeaderFields} |-> None]

\* A build that lets the sprite-file list default to the empty list.
HeaderBuilder_build_FileDefault(builder) ==
    LET filled == [builder EXCEPT !.file = IF @ = None THEN Some(<<>>) ELSE @] IN
    IF \E i \in DOMAIN HeaderFields : filled[HeaderFields[i]] = None
    THEN LET i == CHOOSE i \in DOMAIN HeaderFields :
                      /\ filled[HeaderFields[i]] = None
                      /\ \A j \in 1..(i - 1) : filled[HeaderFields[j]] # None
         IN  Err([variant |-> "DataBuildFailed", field |-> HeaderFields[i]])
    ELSE Ok([f \in DOMAIN filled |-> filled[f][1]])

\* derive_builder's `build`: no field of Header has a default, and the first
\* one never set fails the build.
HeaderBuilder_build(builder) ==
    IF \E i \in DOMAIN HeaderFields : builder[HeaderFields[i]] = None
    THEN LET i == CHOOSE i \in DOMAIN HeaderFields :
                      /\ builder[HeaderFields[i]] = None
                      /\ \A j \in 1..(i - 1) : builder[HeaderFields[j]] # None
         IN  Err([variant |-> "DataBuildFailed", field |-> HeaderFields[i]])
    ELSE Ok([f \in DOMAIN builder |-> builder[f][1]])

Header_parse_tags(builder, header_data_pair) ==
    PairsTryFold(builder, 0, header_data_pair.inner, "Header::parse_tag")

Header_parse_tag(builder, header_tag_pair) ==
    ParseAsType(builder, header_tag_pair, "HeaderTag", Slice(<<"Header::parse_tag_value">>))

\* One row per tag of a header: the rule of the tag, its parse_<field>
\* function, the parse_<field>_value function that one hands to
\* parse_as_type, the builder field the value is stored in, the type the
\* value is parsed to, and the name the value parser gives the field in its
\* error.
HeaderTags ==
    <<[rule |-> "TagName", fn |-> "Header::parse_name",
       value_fn |-> "Header::parse_name_value", field |-> "name",
       kind |-> "text", name |-> "name"],
      [rule |-> "TagHead", fn |-> "Header::parse_head",
       value_fn |-> "Header::parse_head_value", field |-> "head",
       kind |-> "path", name |-> "walking_frame_rate"],
      [rule |-> "TagSmall", fn |-> "Header::parse_small",
       value_fn |-> "Header::parse_small_value", field |-> "small",
       kind |-> "path", name |-> "walking_frame_rate"],
      [rule |-> "TagWalkingFrameRate", fn |-> "Header::parse_walking_frame_rate",
       value_fn |-> "Header::parse_walking_frame_rate_value", field |-> "walking_frame_rate",
       kind |-> "int", name |-> "walking_frame_rate"],
      [rule |-> "TagWalkingSpeed", fn |-> "Header::parse_walking_speed",
       value_fn |-> "Header::parse_walking_speed_value", field |-> "walking_speed",
       kind |-> "float", name |-> "walking_speed"],
      [rule |-> "TagWalkingSpeedZ", fn |-> "Header::parse_walking_speed_z",
       value_fn |-> "Header::parse_walking_speed_z_value", field |-> "walking_speed_z",
       kind |-> "float", name |-> "walking_speed_z"],
      [rule |-> "TagRunningFrameRate", fn |-> "Header::parse_running_frame_rate",
       value_fn |-> "Header::parse_running_frame_rate_value", field |-> "running_frame_rate",
       kind |-> "int", name |-> "running_frame_rate"],
      [rule |-> "TagRunningSpeed", fn |-> "Header::parse_running_speed",
       value_fn |-> "Header::parse_running_speed_value", field |-> "running_speed",
       kind |-> "float", name |-> "running_speed"],
      [rule |-> "TagRunningSpeedZ", fn |-> "Header::parse_running_speed_z",
       value_fn |-> "Header::parse_running_speed_z_value", field |-> "running_speed_z",
       kind |-> "float", name |-> "running_speed_z"],
      [rule |-> "TagHeavyWalkingSpeed", fn |-> "Header::parse_heavy_walking_speed",
       value_fn |-> "Header::parse_heavy_walking_speed_value", field |-> "heavy_walking_speed",
       kind |-> "float", name |-> "heavy_walking_speed"],
      [rule |-> "TagHeavyWalkingSpeedZ", fn |-> "Header::parse_heavy_walking_speed_z",
       value_fn |-> "Header::parse_heavy_walking_speed_z_value", field |-> "heavy_walking_speed_z",
       kind |-> "float", name |-> "heavy_walking_speed_z"],
      [rule |-> "TagHeavyRunningSpeed", fn |-> "Header::parse_heavy_running_speed",
       value_fn |-> "Header::parse_heavy_running_speed_value", field |-> "heavy_running_speed",
       kind |-> "float", name |-> "heavy_running_speed"],
      [rule |-> "TagHeavyRunningSpeedZ", fn |-> "Header::parse_heavy_running_speed_z",
       value_fn |-> "Header::parse_heavy_running_speed_z_value", field |-> "heavy_running_speed_z",
       kind |-> "float", name |-> "heavy_running_speed_z"],
      [rule |-> "TagJumpHeight", fn |-> "Header::parse_jump_height",
       value_fn |-> "Header::parse_jump_height_value", field |-> "jump_height",
       kind |-> "float", name |-> "jump_height"],
      [rule |-> "TagJumpDistance", fn |-> "Header::parse_jump_distance",
       value_fn |-> "Header::parse_jump_distance_value", field |-> "jump_distance",
       kind |-> "float", name |-> "jump_distance"],
      [rule |-> "TagJumpDistanceZ", fn |-> "Header::parse_jump_distance_z",
       value_fn |-> "Header::parse_jump_distance_z_value", field |-> "jump_distance_z",
       kind |-> "float", name |-> "jump_distance_z"],
      [rule |-> "TagDashHeight", fn |-> "Header::parse_dash_height",
       value_fn |-> "Header::parse_dash_height_value", field |-> "dash_height",
       kind |-> "float", name |-> "dash_height"],
      [rule |-> "TagDashDistance", fn |-> "Header::parse_dash_distance",
       value_fn |-> "Header::parse_dash_distance_value", field |-> "dash_distance",
       kind |-> "float", name |-> "dash_distance"],
      [rule |-> "TagDashDistanceZ", fn |-> "Header::parse_dash_distance_z",
       value_fn |-> "Header::parse_dash_distance_z_value", field |-> "dash_distance_z",
       kind |-> "float", name |-> "dash_distance_z"],
      [rule |-> "TagRowingHeight", fn |-> "Header::parse_rowing_height",
       value_fn |-> "Header::parse_rowing_height_value", field |-> "rowing_height",
       kind |-> "float", name |-> "rowing_height"],
      [rule |-> "TagRowingDistance", fn |-> "Header::parse_rowing_distance",
       value_fn |-> "Header::parse_rowing_distance_value", field |-> "rowing_distance",
       kind |-> "float", name |-> "rowing_distance"]>>

\* The `match` on the tag's rule: a sprite file is parsed and pushed onto the
\* builder's list; `_ => {}` for any other rule.
Header_parse_tag_value(builder, header_tag_pair) ==
    IF header_tag_pair.rule = "SpriteFile"
    THEN LET file == SpriteFile_try_from(header_tag_pair) IN
         IF ~file.ok THEN file
         ELSE Ok([builder EXCEPT !.file =
                      Some((IF builder.file = None THEN <<>> ELSE builder.file[1])
                           \o <<file.val>>)])
    ELSE IF \E i \in DOMAIN HeaderTags : HeaderTags[i].rule = header_tag_pair.rule
    THEN Call(HeaderTags[CHOOSE i \in DOMAIN HeaderTags :
                             HeaderTags[i].rule = header_tag_pair.rule].fn,
              builder, header_tag_pair)
    ELSE Ok(builder)

\* parse_name .. parse_rowing_distance.
Header_parse_field(fn, builder, field_pair) ==
    LET tag == HeaderTags[CHOOSE i \in DOMAIN HeaderTags : HeaderTags[i].fn = fn]
    IN  ParseAsType(builder, field_pair, tag.rule, Slice(<<tag.value_fn>>))

\* `impl FromStr for PathBuf`: its Err is Infallible, every text is a path.
PathBuf_from_str(s) == Ok(s)

\* The error of a value, were the field not named in it.
Header_map_err_Unnamed(tag, value_pair, error) ==
    [variant |-> IF tag.kind = "float" THEN "ParseFloat" ELSE "ParseInt", field |-> "",
     value_pair |-> value_pair, error |-> error]

\* The closure given to `map_err` in parse_<field>_value.
Header_map_err(tag, value_pair, error) ==
    CASE tag.kind = "path" ->
             [variant |-> "ParsePath", field |-> tag.name, value_pair |-> value_pair]
      [] tag.kind = "int" ->
             [variant |-> "ParseInt", field |-> tag.name, value_pair |-> value_pair,
              error |-> error]
      [] tag.kind = "float" ->
             [variant |-> "ParseFloat", field |-> tag.name, value_pair |-> value_pair,
              error |-> error]

\* parse_name_value .. parse_rowing_distance_value.  The name is the text
\* itself and a path never fails to parse; the two frame rates parse a u32
\* and every other field an f32.
Header_parse_field_value(fn, builder, value_pair) ==
    LET tag    == HeaderTags[CHOOSE i \in DOMAIN HeaderTags : HeaderTags[i].value_fn = fn]
        parsed == CASE tag.kind = "text"  -> Ok(value_pair.str)
                    [] tag.kind = "path"  -> PathBuf_from_str(value_pair.str)
                    [] tag.kind = "int"   -> ParseInt(value_pair.str, FALSE)
                    [] tag.kind = "float" -> ParseFloat(value_pair.str)
    IN  Set(builder, tag.field,
            IF parsed.ok THEN parsed
            ELSE Err(Header_map_err(tag, value_pair, parsed.err)))

Header_sub_rule_fns == Slice(<<"Header::parse_tags">>)

\* `.and_then(|builder| builder.build().map_err(Error::DataBuildFailed))`
Header_and_then_build(r) == IF r.ok THEN HeaderBuilder_build(r.val) ELSE r

Header_try_from(pair) ==
    Header_and_then_build(ParseAsType(HeaderBuilder_default, pair, "Header",
                                      Header_sub_rule_fns))

(***************************************************************************)
(* ObjectData (src/object_data.rs).                                        *)
(***************************************************************************)
\* What #[derive(Default)] gives a Header: empty texts and paths, no sprite
\* file, zero for every number.
Header_default ==
    [f \in {HeaderFields[i] : i \in DOMAIN HeaderFields} |->
        CASE f \in {"name", "head", "small", "file"} -> <<>>
          [] f \in {"walking_frame_rate", "running_frame_rate"} -> 0
          [] OTHER -> [num |-> 0, scale |-> 0]]

ObjectData_default == [header |-> Header_default, frames |-> <<>>]

\* What a call of try_from starts from, whatever the call before it left:
\* the builder `ObjectData::default()` and `pair.into_inner()` at the first
\* child.
ObjectData_try_from_entry_StaleIterator(left) ==
    [acc |-> ObjectData_default, idx |-> left.idx]

ObjectData_try_from_entry(left) == [acc |-> ObjectData_default, idx |-> 0]

\* #[derive(PartialEq)] of Header and of ObjectData: `==` field by field.
Header_eq(a, b) ==
    \A f \in DOMAIN a :
        IF \E i \in DOMAIN HeaderTags : HeaderTags[i].field = f /\ HeaderTags[i].kind = "float"
        THEN F32_eq(a[f], b[f])
        ELSE a[f] = b[f]

ObjectData_eq(a, b) == Header_eq(a.header, b.header) /\ a.frames = b.frames

\* A map that lets an error pass and keeps the accumulator.
ObjectData_map_KeepGoing(object_data, field, r) ==
    IF r.ok THEN Ok([object_data EXCEPT ![field] = r.val]) ELSE Ok(object_data)

\* `.map(|value| { object_data.field = value; object_data })`
ObjectData_map(object_data, field, r) ==
    IF r.ok THEN Ok([object_data EXCEPT ![field] = r.val]) ELSE r

\* |mut object_data, header_pair| Header::try_from(header_pair).map(..)
ObjectData_header(object_data, header_pair) ==
    ObjectData_map(object_data, "header", Header_try_from(header_pair))

\* |mut object_data, frames_pair| Frames::try_from(frames_pair).map(..)
ObjectData_frames(object_data, frames_pair) ==
    ObjectData_map(object_data, "frames", Frames_try_from(frames_pair))

\* The second round of the fold of parse_as_type over zip(children, the two
\* closures): the error of the first round, the accumulator if there is no
\* second child, or the second closure on the second child.
ObjectData_fold_frames(r, pairs) ==
    IF ~r.ok \/ Len(pairs) < 2 THEN r ELSE ObjectData_frames(r.val, pairs[2])

\* parse_as_type(ObjectData::default(), pair, Rule::Object, sub_rule_fns) with
\* the two closures in place.
ObjectData_try_from(pair) ==
    IF ~RuleMatches(pair, "Object") THEN Err(Error_GrammarSingle("Object", pair))
    ELSE ObjectData_fold_frames(
             IF Len(pair.inner) < 1 THEN Ok(ObjectData_default)
             ELSE ObjectData_header(ObjectData_default, pair.inner[1]),
             pair.inner)

\* A surplus check that is passed over.
ObjectData_surplus_Ignored(object_data, surplus_pairs) == object_data

\* `if object_data_pairs.peek().is_some() { Err(ObjectDataSurplus {..}) }`
ObjectData_surplus(object_data, surplus_pairs) ==
    IF ~object_data.ok THEN object_data
    ELSE IF surplus_pairs # <<>>
         THEN Err([variant |-> "ObjectDataSurplus", object_data |-> object_data.val,
                   surplus_pairs |-> surplus_pairs])
         ELSE Ok(object_data.val)

\* TryFrom<&str>, on what ObjectDataParser::parse(Rule::Object, text) gave:
\* a pest error or the top-level pairs.
ObjectData_try_from_str(parsed) ==
    IF ~parsed.ok THEN Err([variant |-> "PestError", error |-> parsed.err])
    ELSE IF parsed.val = <<>> THEN Err([variant |-> "ObjectDataExpected"])
    ELSE ObjectData_surplus(ObjectData_try_from(Head(parsed.val)), Tail(parsed.val))

(***************************************************************************)
(* ObjectData::open (src/object_data.rs).  A file is a path (stem and      *)
(* extension), whether it can be opened, and its bytes.  The codec is the  *)
(* crate lf2_codec, a function from bytes to bytes or an error: here it    *)
(* drops a header of DATA_HEADER_SIZE bytes and shifts every other byte    *)
(* by DATA_KEY.                                                            *)
(***************************************************************************)
DATA_HEADER_SIZE == 1

DATA_KEY == 1

DataDecoder_decode(bytes) ==
    IF Len(bytes) < DATA_HEADER_SIZE THEN Err([variant |-> "DecodeError"])
    ELSE Ok([i \in 1..(Len(bytes) - DATA_HEADER_SIZE) |->
                (bytes[i + DATA_HEADER_SIZE] + 256 - DATA_KEY) % 256])

\* The character of an ASCII byte, for the bytes of FileBytes and their
\* decoded forms.
CharOf(b) ==
    CASE b = 64 -> "@" [] b = 65 -> "A" [] b = 66 -> "B" [] b = 67 -> "C" [] OTHER -> "?"

\* UTF-8 validity of bytes among which those of 128 and more stand alone or
\* follow each other as lead bytes: only ASCII is valid.
Utf8Text(bytes) ==
    IF \A i \in DOMAIN bytes : bytes[i] < 128
    THEN Ok([i \in DOMAIN bytes |-> CharOf(bytes[i])])
    ELSE Err("InvalidUtf8")

\* `String::from_utf8(decoded_bytes)?` with From<FromUtf8Error> for Error.
String_from_utf8(bytes) ==
    IF Utf8Text(bytes).ok THEN Utf8Text(bytes)
    ELSE Err([variant |-> "DecodedDataInvalidUtf8"])

\* `buf_reader.read_to_string(..).map_err(|io_error| Error::FileOpenError {..})`
Read_to_string(path, bytes) ==
    IF Utf8Text(bytes).ok THEN Utf8Text(bytes)
    ELSE Err([variant |-> "FileOpenError", path |-> path, io_error |-> "InvalidData"])

\* `File::open(path).map_err(|io_error| Error::FileOpenError {..})`
File_open(file) ==
    IF file.exists THEN Ok(file.bytes)
    ELSE Err([variant |-> "FileOpenError", path |-> file.path, io_error |-> "NotFound"])

needs_decode_Always(path) == TRUE

\* `path.extension().map(|ext| ext == "dat").unwrap_or(false)`
needs_decode(path) == IF path.ext = None THEN FALSE ELSE path.ext[1] = "dat"

\* `let decoded_bytes = DataDecoder::decode(buf_reader)?;
\*  String::from_utf8(decoded_bytes)?`
ObjectData_open_decoded(bytes) ==
    The({IF decoded.ok THEN String_from_utf8(decoded.val) ELSE decoded :
         decoded \in {DataDecoder_decode(bytes)}})

ObjectData_open(file) ==
    The({IF ~opened.ok THEN opened
         ELSE IF needs_decode(file.path) THEN ObjectData_open_decoded(opened.val)
         ELSE Read_to_string(file.path, opened.val) :
         opened \in {File_open(file)}})

(***************************************************************************)
(* Application of a sub-parser by name.                                    *)
(***************************************************************************)
Call(fn, builder, pair) ==
    CASE fn = "Bdy::parse_tags"        -> Bdy_parse_tags(builder, pair)
      [] fn = "Bdy::parse_tag"         -> Bdy_parse_tag(builder, pair)
      [] fn = "Bdy::parse_tag_value"   -> Bdy_parse_tag_value(builder, pair)
      [] fn = "Bdy::parse_kind_value"  -> Bdy_parse_kind_value(builder, pair)
      [] fn = "Bdy::parse_x_value"     -> Bdy_parse_x_value(builder, pair)
      [] fn = "Bdy::parse_y_value"     -> Bdy_parse_y_value(builder, pair)
      [] fn = "Bdy::parse_w_value"     -> Bdy_parse_w_value(builder, pair)
      [] fn = "Bdy::parse_h_value"     -> Bdy_parse_h_value(builder, pair)
      [] fn = "BPoint::parse_tags"      -> BPoint_parse_tags(builder, pair)
      [] fn = "BPoint::parse_tag"       -> BPoint_parse_tag(builder, pair)
      [] fn = "BPoint::parse_tag_value" -> BPoint_parse_tag_value(builder, pair)
      [] fn = "BPoint::parse_x_value"   -> BPoint_parse_x_value(builder, pair)
      [] fn = "BPoint::parse_y_value"   -> BPoint_parse_y_value(builder, pair)
      [] fn = "WPoint::parse_tags"      -> WPoint_parse_tags(builder, pair)
      [] fn = "WPoint::parse_tag"       -> WPoint_parse_tag(builder, pair)
      [] fn = "WPoint::parse_tag_value" -> WPoint_parse_tag_value(builder, pair)
      [] fn = "WPoint::parse_kind_value" -> WPoint_parse_kind_value(builder, pair)
      [] fn = "WPoint::parse_x_value"   -> WPoint_parse_x_value(builder, pair)
      [] fn = "WPoint::parse_y_value"   -> WPoint_parse_y_value(builder, pair)
      [] fn = "WPoint::parse_weapon_act_value" -> WPoint_parse_weapon_act_value(builder, pair)
      [] fn = "WPoint::parse_attacking_value"  -> WPoint_parse_attacking_value(builder, pair)
      [] fn = "WPoint::parse_d_vx_value" -> WPoint_parse_d_vx_value(builder, pair)
      [] fn = "WPoint::parse_d_vy_value" -> WPoint_parse_d_vy_value(builder, pair)
      [] fn \in {k \o "::parse_tags" : k \in TaggedKinds} ->
             Tagged_parse_tags(TaggedOf(fn, "::parse_tags"), builder, pair)
      [] fn \in {k \o "::parse_tag" : k \in TaggedKinds} ->
             Tagged_parse_tag(TaggedOf(fn, "::parse_tag"), builder, pair)
      [] fn \in {k \o "::parse_tag_value" : k \in TaggedKinds} ->
             Tagged_parse_tag_value(TaggedOf(fn, "::parse_tag_value"), builder, pair)
      [] fn = "Element::parse_element"  -> Element_parse_element(builder, pair)
      [] fn = "Frames::parse_frame" -> Frames_parse_frame(builder, pair)
      [] fn = "Frame::parse_number" -> Frame_parse_number(builder, pair)
      [] fn = "Frame::parse_number_value" -> Frame_parse_number_value(builder, pair)
      [] fn = "Frame::parse_name" -> Frame_parse_name(builder, pair)
      [] fn = "Frame::parse_name_value" -> Frame_parse_name_value(builder, pair)
      [] fn = "Frame::parse_data" -> Frame_parse_data(builder, pair)
      [] fn = "Frame::parse_tag" -> Frame_parse_tag(builder, pair)
      [] fn = "Frame::parse_tag_value" -> Frame_parse_tag_value(builder, pair)
      [] fn = "Frame::parse_data::closure" -> Frame_parse_data_closure(builder, pair)
      [] fn = "Header::parse_tags" -> Header_parse_tags(builder, pair)
      [] fn = "Header::parse_tag" -> Header_parse_tag(builder, pair)
      [] fn = "Header::parse_tag_value" -> Header_parse_tag_value(builder, pair)
      [] fn \in {FrameTags[i].fn : i \in DOMAIN FrameTags} ->
             Frame_parse_field(fn, builder, pair)
      [] fn \in {FrameTags[i].value_fn : i \in DOMAIN FrameTags} ->
             Frame_parse_field_value(fn, builder, pair)
      [] fn \in {HeaderTags[i].fn : i \in DOMAIN HeaderTags} ->
             Header_parse_field(fn, builder, pair)
      [] fn \in {HeaderTags[i].value_fn : i \in DOMAIN HeaderTags} ->
             Header_parse_field_value(fn, builder, pair)
      [] \E k \in TaggedKinds : \E i \in DOMAIN TaggedTags(k) : TaggedTags(k)[i].value_fn = fn ->
             Tagged_parse_field_value(
                 CHOOSE k \in TaggedKinds :
                     \E i \in DOMAIN TaggedTags(k) : TaggedTags(k)[i].value_fn = fn,
                 fn, builder, pair)
      [] fn \in {SpriteFileTags[i].fn : i \in DOMAIN SpriteFileTags} ->
             SpriteFile_parse_field(fn, builder, pair)
      [] fn \in {SpriteFileTags[i].value_fn : i \in DOMAIN SpriteFileTags} ->
             SpriteFile_parse_field_value(fn, builder, pair)

(***************************************************************************)
(* parse_as_type, one step at a time, for the call under observation.      *)
(* pc: "start" -> "fold" -> "returned".                                    *)
(***************************************************************************)
\* The node is of another kind: GrammarSingle, and no sub-parser runs.
DriverMismatch(rule_expected) ==
    /\ pc = "start"
    /\ ~RuleMatches(input, rule_expected)
    /\ pc' = "returned"
    /\ result' = <<ParseAsType(acc, input, rule_expected, Slice(<<>>))>>
    /\ UNCHANGED <<input, acc, idx, calls>>

\* The node is of the expected kind: the fold over its children starts.
DriverEnter(rule_expected) ==
    /\ pc = "start"
    /\ RuleMatches(input, rule_expected)
    /\ pc' = "fold"
    /\ UNCHANGED <<input, acc, idx, calls, result>>

\* The zip yields the next (child, sub-parser): the closure calls it.
DriverStep(n) ==
    IF n.done
    THEN /\ pc' = "returned"
         /\ result' = <<n.r>>
         /\ UNCHANGED <<acc, idx>>
    ELSE /\ acc' = n.builder
         /\ idx' = n.i
         /\ UNCHANGED <<pc, result>>

DriverCall(subrule_fns) ==
    /\ pc = "fold"
    /\ ZipHas(input.inner, subrule_fns, idx + 1)
    /\ calls' = Append(calls, [fn |-> SubRuleAt(subrule_fns, idx + 1),
                               pair |-> input.inner[idx + 1],
                               builder |-> acc])
    /\ DriverStep(FoldNext(acc, idx, input.inner, subrule_fns))
    /\ UNCHANGED input

\* The zip is exhausted: the fold returns the accumulator.
DriverReturn(subrule_fns) ==
    /\ pc = "fold"
    /\ ~ZipHas(input.inner, subrule_fns, idx + 1)
    /\ pc' = "returned"
    /\ result' = <<FoldNext(acc, idx, input.inner, subrule_fns).r>>
    /\ UNCHANGED <<input, acc, idx, calls>>

(***************************************************************************)
(* The tag types side by side.                                             *)
(***************************************************************************)
EnumTypes == {"Effect", "CPointKind", "OPointKind", "WPointKind"}

TagTypes == EnumTypes \cup {"BdyKind", "OPointFacing"}

Variants(ty) ==
    CASE ty = "Effect"     -> EffectVariants
      [] ty = "CPointKind" -> CPointKindVariants
      [] ty = "OPointKind" -> OPointKindVariants
      [] ty = "WPointKind" -> WPointKindVariants

Discriminant(ty, v) ==
    CASE ty = "Effect"     -> Effect_discriminant(v)
      [] ty = "CPointKind" -> CPointKind_discriminant(v)
      [] ty = "OPointKind" -> OPointKind_discriminant(v)
      [] ty = "WPointKind" -> WPointKind_discriminant(v)

\* The code table of an enum: the discriminants it declares.
Codes(ty) == {Discriminant(ty, v) : v \in Variants(ty)}

(***************************************************************************)
(* Display of the tag types' parse errors.  A message is the sequence of   *)
(* the pieces write! emits: the format string cut at its codes and names,  *)
(* and the rendered argument.  The backquote of the format strings is      *)
(* written ' here.                                                         *)
(***************************************************************************)
\* write!("{}") of a text: its characters joined into one piece.
RECURSIVE Str(_)
Str(t) == IF t = <<>> THEN "" ELSE t[1] \o Str(Tail(t))

\* Display for core::num::ParseIntError.
ParseIntError_fmt(kind) ==
    IF kind = "Empty" THEN <<"cannot parse integer from empty string">>
    ELSE <<"invalid digit found in string">>

WPointKindParseError_fmt(e) ==
    IF e.variant = "ParseIntError" THEN ParseIntError_fmt(e.error)
    ELSE <<"'", Str(IntToText(e.value)),
           "' is not recognized as a valid 'WPointKind' value.\nValid values are [",
           "1", ", ", "2", ", ", "3", "].">>

CPointKindParseError_fmt(e) ==
    IF e.variant = "ParseIntError" THEN ParseIntError_fmt(e.error)
    ELSE <<"'", Str(IntToText(e.value)),
           "' is not recognized as a valid 'CPointKind' value.\nValid values are [",
           "1", " (", "Catcher", "), ", "2", " (", "Caught", ")].">>

OPointKindParseError_fmt(e) ==
    IF e.variant = "ParseIntError" THEN ParseIntError_fmt(e.error)
    ELSE <<"'", Str(IntToText(e.value)),
           "' is not recognized as a valid 'OPointKind' value.\nValid values are [",
           "1", " (", "Spawn", "), ", "2", " (", "HoldLightWeapon", ")].">>

\* element/effect/effect_parse_error.rs, the module element/effect.rs declares.
EffectParseError_fmt(e) ==
    IF e.variant = "ParseIntError" THEN ParseIntError_fmt(e.error)
    ELSE <<"'", Str(IntToText(e.value)),
           "' is not recognized as a valid 'Effect' value.">>

\* element/itr/effect/effect_parse_error.rs, the second EffectParseError.
ItrEffectParseError_fmt(e) ==
    IF e.variant = "ParseIntError" THEN ParseIntError_fmt(e.error)
    ELSE <<"'", Str(IntToText(e.value)),
           "' is not recognized as a valid 'Effect' value.\n\nValid values are:\n\n",
           "- ", "0", " (", "Normal", ")\n",
           "- ", "1", " (", "Blood", ")\n",
           "- ", "2", " (", "Fire", ")\n",
           "- ", "3", " (", "Ice", ")\n",
           "- ", "4", " (", "Reflect", ")\n",
           "- ", "5", " (", "Reflects", ")\n",
           "- ", "20", " (", "FireNoReburn", ")\n",
           "- ", "21", " (", "FireBreath", ")\n",
           "- ", "22", " (", "FireExplode", ")\n",
           "- ", "23", " (", "PowerExplode", ")\n",
           "- ", "30", " (", "Icicle", ")\n",
           "\n">>

\* The Display implementations a parse error of tag type ty can be
\* rendered by.
ParseErrorMessages(ty, e) ==
    CASE ty = "Effect"     -> {EffectParseError_fmt(e), ItrEffectParseError_fmt(e)}
      [] ty = "CPointKind" -> {CPointKindParseError_fmt(e)}
      [] ty = "OPointKind" -> {OPointKindParseError_fmt(e)}
      [] ty = "WPointKind" -> {WPointKindParseError_fmt(e)}

(***************************************************************************)
(* Display of Error (src/error.rs), for the errors raised on a value.      *)
(***************************************************************************)
\* Display for core::num::ParseFloatError.
ParseFloatError_fmt(kind) ==
    IF kind = "Empty" THEN <<"cannot parse float from empty string">>
    ELSE <<"invalid float literal">>

BdyKindParseError_fmt(e) ==
    IF e.variant = "ParseIntError" THEN ParseIntError_fmt(e.error)
    ELSE <<"'", Str(IntToText(e.value)),
           "' is not a valid 'BdyKind' value. Valid values are:\n\n* 0: Normal\n* 1000 to 1999: Go to frame 0 - 999\n* -1000 to -1999: Go to frame 0 - 999, change facing\n\n">>

\* The list of codes and names is part of the format string.
ItrKindParseError_fmt(e) ==
    IF e.variant = "ParseIntError" THEN ParseIntError_fmt(e.error)
    ELSE <<"'", Str(IntToText(e.value)),
           "' is not recognized as a valid 'ItrKind' value.\nValid values are:\n\n- 0 (Normal),\n- 1 (CatchStunned),\n- 2 (WeaponPick),\n- 3 (CatchForce),\n- 4 (Falling),\n- 5 (WeaponStrength),\n- 6 (SuperPunch),\n- 7 (RollWeaponPick),\n- 8 (HealBall),\n- 9 (ReflectiveShield),\n- 10 (SonataOfDeath),\n- 11 (SonataOfDeath2),\n- 14 (Wall),\n- 15 (WhirlwindWind),\n- 16 (WhirlwindIce),\n\n">>

\* `value_pair.as_span().start_pos().line_col()`, counted from 1, of a text
\* of one line.
LineCol(value_pair) == <<1, value_pair.pos + 1>>

\* The label each variant's format string gives the value.
ErrorLabels ==
    [ParseBdyKind |-> "bdy: kind:", ParseCPointKind |-> "cpoint: kind:",
     ParseItrKind |-> "itr: kind:", ParseItrEffect |-> "itr: effect:",
     ParseOPointKind |-> "opoint: kind:", ParseOPointAction |-> "opoint: action:",
     ParseWPointKind |-> "wpoint: kind:", ParseWeaponAct |-> "weaponact:",
     ParseWeaponStrengthIndex |-> "wpoint: attacking:"]

\* `write!(f, "{}", error)` of the error the variant carries.
Error_fmt_error(e) ==
    CASE e.variant \in {"ParseInt", "ParseOPointAction", "ParseWeaponAct",
                        "ParseWeaponStrengthIndex"} -> ParseIntError_fmt(e.error)
      [] e.variant = "ParseFloat"      -> ParseFloatError_fmt(e.error)
      [] e.variant = "ParseBdyKind"    -> BdyKindParseError_fmt(e.error)
      [] e.variant = "ParseCPointKind" -> CPointKindParseError_fmt(e.error)
      [] e.variant = "ParseItrKind"    -> ItrKindParseError_fmt(e.error)
      [] e.variant = "ParseItrEffect"  -> ItrEffectParseError_fmt(e.error)
      [] e.variant = "ParseOPointKind" -> OPointKindParseError_fmt(e.error)
      [] e.variant = "ParseWPointKind" -> WPointKindParseError_fmt(e.error)

\* "Failed to parse `{}` value `{}` at position: `{}:{}`. Error: `{}`."
\* with the field as first argument for ParseInt and ParseFloat, and the
\* label written in the format string for the other variants.
Error_fmt(e) ==
    <<"Failed to parse '",
      IF e.variant \in {"ParseInt", "ParseFloat"} THEN e.field ELSE ErrorLabels[e.variant],
      "' value '", Str(e.value_pair.str), "' at position: '",
      Str(IntToText(LineCol(e.value_pair)[1])), ":",
      Str(IntToText(LineCol(e.value_pair)[2])), "'. Error: '">>
    \o Error_fmt_error(e) \o <<"'.">>

(***************************************************************************)
(* SpecTags: from_str of each tag type on a text.                          *)
(***************************************************************************)
MalformedTexts ==
    {<<>>, <<"-">>, <<"+">>, <<"a", "b", "c">>, <<"1", "x">>, <<"+", "1">>,
     <<"0", "1">>, <<"-", "0">>, <<"1", "0", "0", "0", " ">>}

\* A text to parse as a tag of type ty: the decimal text of an integer n
\* (n |-> <<n>>), or a text that is not the decimal text of any integer.
TagInputs ==
    {[ty |-> ty, n |-> Some(n), s |-> IntToText(n)] :
        ty \in TagTypes, n \in (0 - MaxCode)..MaxCode}
    \cup {[ty |-> ty, n |-> None, s |-> s] : ty \in TagTypes, s \in MalformedTexts}

InitTags ==
    /\ pc = "start"
    /\ input \in TagInputs
    /\ acc = None
    /\ idx = 0
    /\ calls = <<>>
    /\ result = <<>>

Returns(r) ==
    /\ pc' = "done"
    /\ result' = <<r>>
    /\ UNCHANGED <<input, acc, idx, calls>>

BdyKindFromStr ==
    /\ pc = "start"
    /\ input.ty = "BdyKind"
    /\ Returns(BdyKind_from_str(input.s))

EffectFromStr ==
    /\ pc = "start"
    /\ input.ty = "Effect"
    /\ Returns(Effect_from_str(input.s))

CPointKindFromStr ==
    /\ pc = "start"
    /\ input.ty = "CPointKind"
    /\ Returns(CPointKind_from_str(input.s))

OPointKindFromStr ==
    /\ pc = "start"
    /\ input.ty = "OPointKind"
    /\ Returns(OPointKind_from_str(input.s))

WPointKindFromStr ==
    /\ pc = "start"
    /\ input.ty = "WPointKind"
    /\ Returns(WPointKind_from_str(input.s))

OPointFacingFromStr ==
    /\ pc = "start"
    /\ input.ty = "OPointFacing"
    /\ Returns(OPointFacing_from_str(input.s))

\* to_string() of the error from_str returned: the message is kept in acc.
DisplayError ==
    /\ pc = "done"
    /\ input.ty \in EnumTypes
    /\ ~result[1].ok
    /\ \E msg \in ParseErrorMessages(input.ty, result[1].err) : acc' = Some(msg)
    /\ pc' = "displayed"
    /\ UNCHANGED <<input, idx, calls, result>>

NextTags ==
    \/ BdyKindFromStr
    \/ EffectFromStr
    \/ CPointKindFromStr
    \/ OPointKindFromStr
    \/ WPointKindFromStr
    \/ OPointFacingFromStr
    \/ DisplayError

SpecTags == InitTags /\ [][NextTags]_vars

(***************************************************************************)
(* SpecDriver: SpriteFile::try_from on a node, parse_as_type step by step. *)
(* The node is a SpriteFile node, or a node of another kind, with up to    *)
(* MaxChildren children; each child is the tag the grammar puts in that    *)
(* place with a good value, the same tag with a bad value, or another tag. *)
(***************************************************************************)
SpriteFileTagRules == <<"TagFileValue", "TagW", "TagH", "TagRow", "TagCol">>

SpriteFileChildOptions(i) ==
    LET rule == IF i <= Len(SpriteFileTagRules) THEN SpriteFileTagRules[i] ELSE "TagCol" IN
    {TagNode(rule, IF rule = "TagFileValue" THEN <<"a", ".", "b", "m", "p">>
                   ELSE IntToText(70 + i)),
     TagNode(rule, <<"a", "b", "c">>),
     TagNode("TagKind", <<"1">>)}

RECURSIVE SpriteFileChildSeqs(_)
SpriteFileChildSeqs(k) ==
    IF k = 0 THEN {<<>>}
    ELSE {Append(s, At(c, k)) : s \in SpriteFileChildSeqs(k - 1), c \in SpriteFileChildOptions(k)}

SpriteFileInputs ==
    {Node(rule, inner) :
        rule \in {"SpriteFile", "Frame"},
        inner \in UNION {SpriteFileChildSeqs(k) : k \in 0..MaxChildren}}

InitDriver ==
    /\ pc = "start"
    /\ input \in SpriteFileInputs
    /\ acc = SpriteFileBuilder_default
    /\ idx = 0
    /\ calls = <<>>
    /\ result = <<>>

\* `.and_then(|builder| builder.build().map_err(Error::DataBuildFailed))`
SpriteFileBuild ==
    /\ pc = "returned"
    /\ pc' = "built"
    /\ result' = <<IF result[1].ok THEN SpriteFileBuilder_build(result[1].val)
                   ELSE result[1]>>
    /\ UNCHANGED <<input, acc, idx, calls>>

NextDriver ==
    \/ DriverMismatch("SpriteFile")
    \/ DriverEnter("SpriteFile")
    \/ DriverCall(SpriteFile_sub_rule_fns)
    \/ DriverReturn(SpriteFile_sub_rule_fns)
    \/ SpriteFileBuild

SpecDriver == InitDriver /\ [][NextDriver]_vars

\* The steps compose to SpriteFile::try_from.
DriverStepsAgree == pc = "built" => result[1] = SpriteFile_try_from(input)

\* What the k-th sub-parser invocation returned.
Returned(k) == Call(calls[k].fn, calls[k].builder, calls[k].pair)

(***************************************************************************)
(* C4.  parse_as_type, the node kind matching, applies the i-th sub-parser *)
(* to the i-th child in source order and hands each sub-parser the         *)
(* accumulator the previous one returned; at the first sub-parser that     *)
(* returns an error it stops, invokes no later sub-parser and returns      *)
(* exactly that error.                                                     *)
(***************************************************************************)
C4_InOrderShortCircuit ==
    /\ \A k \in 1..Len(calls) :
          /\ calls[k].fn = SpriteFile_sub_rule_fns.list[k]
          /\ calls[k].pair = input.inner[k]
          /\ calls[k].builder =
                 IF k = 1 THEN SpriteFileBuilder_default ELSE Returned(k - 1).val
          /\ k < Len(calls) => Returned(k).ok
    /\ (Len(calls) > 0 /\ ~Returned(Len(calls)).ok) =>
          /\ pc \in {"returned", "built"}
          /\ result = <<Returned(Len(calls))>>

\* The third sub-parser failed on the third child after two had succeeded,
\* two more children were left, and its error is the result.
C4_Witness ==
    /\ pc = "returned"
    /\ Len(input.inner) = 5
    /\ Len(calls) = 3
    /\ calls[3].builder.w # None
    /\ ~result[1].ok
    /\ result[1].err.variant = "ParseInt"
    /\ result[1].err.field = "h"

(***************************************************************************)
(* C5.  parse_as_type fails with a "missing expected node" error whenever  *)
(* the node has fewer direct children than there are sub-parsers; it never *)
(* returns Ok while a sub-parser of a finite list was left unapplied.      *)
(***************************************************************************)
C5_MissingNodeIsError ==
    (/\ pc = "returned"
     /\ input.rule = "SpriteFile"
     /\ Len(input.inner) < Len(SpriteFile_sub_rule_fns.list)) => ~result[1].ok

(***************************************************************************)
(* C6.  parse_as_type on a node whose kind differs from rule_expected      *)
(* returns GrammarSingle carrying rule_expected and the node found,        *)
(* invokes no sub-parser and does not return the accumulator.              *)
(***************************************************************************)
C6_GrammarMismatch ==
    (pc # "start" /\ input.rule # "SpriteFile") =>
        /\ pc \in {"returned", "built"}
        /\ calls = <<>>
        /\ result = <<Err([variant |-> "GrammarSingle",
                           rule_expected |-> "SpriteFile",
                           pair_found |-> Some(input)])>>

\* A Frame node with children was handed in where a SpriteFile was expected.
C6_Witness ==
    /\ pc = "returned"
    /\ input.rule = "Frame"
    /\ Len(input.inner) > 0
    /\ ~result[1].ok
    /\ result[1].err.variant = "GrammarSingle"

(***************************************************************************)
(* Source trees of elements and frames.                                    *)
(***************************************************************************)
ElementDataRule(kind) ==
    CASE kind = "Bdy"    -> "BdyData"
      [] kind = "BPoint" -> "BPointData"
      [] kind = "CPoint" -> "CPointData"
      [] kind = "Itr"    -> "ItrData"
      [] kind = "OPoint" -> "OPointData"
      [] kind = "WPoint" -> "WPointData"
      [] OTHER           -> "Data"

ElementTagRule(kind) ==
    CASE kind = "Bdy"    -> "BdyTag"
      [] kind = "BPoint" -> "BPointTag"
      [] kind = "CPoint" -> "CPointTag"
      [] kind = "Itr"    -> "ItrTag"
      [] kind = "OPoint" -> "OPointTag"
      [] kind = "WPoint" -> "WPointTag"
      [] OTHER           -> "Tag"

\* `kind: tag tag ..`: a node of rule `kind` holding its tags.
KindNode(kind, tags) ==
    Node(kind, <<Node(ElementDataRule(kind),
                      [i \in 1..Len(tags) |-> Node(ElementTagRule(kind), <<tags[i]>>)])>>)

ElementNode(kind, tags) == Node("Element", <<KindNode(kind, tags)>>)

FrameTagNode(rule, text) == Node("FrameTag", <<TagNode(rule, text)>>)

FrameNode(number, name, body) ==
    Node("Frame", <<TagNode("FrameNumber", number), TagNode("FrameName", name),
                    Node("FrameData", body)>>)

\* The sequences over S of length at most n.
RECURSIVE SeqsUpTo(_, _)
SeqsUpTo(S, n) ==
    IF n = 0 THEN {<<>>}
    ELSE LET shorter == SeqsUpTo(S, n - 1) IN
         shorter \cup {Append(s, x) : s \in {q \in shorter : Len(q) = n - 1}, x \in S}

\* `bdy: kind: 0 x: 0 y: 0 w: 30 h: 60`
StandBdyTags ==
    <<TagNode("TagKind", <<"0">>), TagNode("TagX", <<"0">>), TagNode("TagY", <<"0">>),
      TagNode("TagW", <<"3", "0">>), TagNode("TagH", <<"6", "0">>)>>

(***************************************************************************)
(* SpecElement: Element::try_from on a node, step by step.  The node is an *)
(* Element node (or, once, another node) whose child is of one of the six  *)
(* element kinds, or of another kind, with up to MaxElementTags tags.      *)
(***************************************************************************)
ElementTagOptions ==
    {TagNode("TagKind", <<"0">>), TagNode("TagKind", <<"1">>),
     TagNode("TagKind", <<"1", "0", "5", "0">>), TagNode("TagX", <<"1", "0">>),
     TagNode("TagX", <<"a", "b", "c">>), TagNode("TagY", <<"-", "5">>),
     TagNode("TagW", <<"3", "0">>), TagNode("TagZWidth", <<"1", "3">>),
     Node("TagH", <<>>)}

ElementInputs ==
    {ElementNode(kind, tags) :
        kind \in ElementKinds \cup {"FrameTag"},
        tags \in SeqsUpTo(ElementTagOptions, MaxElementTags)}
    \cup {Node("Element", <<>>), KindNode("Bdy", StandBdyTags), ElementNode("Bdy", StandBdyTags)}

InitElement ==
    /\ pc = "start"
    /\ input \in ElementInputs
    /\ acc = None
    /\ idx = 0
    /\ calls = <<>>
    /\ result = <<>>

\* `.and_then(|element| element.ok_or_else(|| Error::ElementBuildNone(pair)))`
ElementBuild ==
    /\ pc = "returned"
    /\ pc' = "built"
    /\ result' = <<Element_ok_or_else(result[1], input)>>
    /\ UNCHANGED <<input, acc, idx, calls>>

NextElement ==
    \/ DriverMismatch("Element")
    \/ DriverEnter("Element")
    \/ DriverCall(Element_sub_rule_fns)
    \/ DriverReturn(Element_sub_rule_fns)
    \/ ElementBuild

SpecElement == InitElement /\ [][NextElement]_vars

ElementStepsAgree == pc = "built" => result[1] = Element_try_from(input)

(***************************************************************************)
(* C7.  Element::try_from on an Element node whose single inner child is   *)
(* of one of the six kinds Bdy, BPoint, CPoint, Itr, OPoint, WPoint        *)
(* invokes that kind's parser and, when it succeeds, returns Ok with the   *)
(* matching variant; a child of any other kind is a Grammar error; and     *)
(* ElementBuildNone is never returned for a child of a known kind.         *)
(***************************************************************************)
C7_ElementDispatch ==
    (pc = "built" /\ input.rule = "Element" /\ Len(input.inner) = 1) =>
        LET child == input.inner[1] IN
        IF child.rule \in ElementKinds
        THEN /\ result[1].ok => result[1].val.variant = child.rule
             /\ ~result[1].ok => result[1].err.variant # "ElementBuildNone"
        ELSE /\ ~result[1].ok
             /\ result[1].err.variant = "Grammar"

(***************************************************************************)
(* SpecFrame: Frame::try_from on a Frame node, step by step.  The body of  *)
(* the frame holds the tags of a complete frame, with up to MaxFrameExtras *)
(* further tags and elements before and after them.                        *)
(***************************************************************************)
RequiredFrameTags ==
    <<FrameTagNode("TagPic", <<"1">>), FrameTagNode("TagState", <<"0">>),
      FrameTagNode("TagNext", <<"9", "9", "9">>), FrameTagNode("TagDVx", <<"0">>),
      FrameTagNode("TagDVy", <<"0">>), FrameTagNode("TagDVz", <<"0">>),
      FrameTagNode("TagCenterX", <<"3", "9">>), FrameTagNode("TagCenterY", <<"7", "9">>)>>

FrameExtraOptions ==
    {ElementNode("Bdy", StandBdyTags),
     ElementNode("BPoint", <<TagNode("TagX", <<"4">>)>>),
     ElementNode("Itr", <<TagNode("TagKind", <<"0">>)>>),
     ElementNode("Bdy", <<TagNode("TagX", <<"a", "b", "c">>)>>),
     FrameTagNode("TagWait", <<"3">>),
     FrameTagNode("TagMp", <<"x">>),
     Node("Frame", <<>>)}

\* Each child of a body gets its place as position.
Placed(body) == [i \in 1..Len(body) |-> At(body[i], i)]

FrameInputs ==
    {FrameNode(number, <<"S", "t", "a", "n", "d">>, Placed(pre \o required \o post)) :
        number \in {<<"0">>, <<"x">>},
        required \in {RequiredFrameTags, Tail(RequiredFrameTags)},
        pre \in SeqsUpTo(FrameExtraOptions, MaxFrameExtras),
        post \in SeqsUpTo(FrameExtraOptions, MaxFrameExtras)}
    \cup {Node("Frames", <<>>)}

InitFrame ==
    /\ pc = "start"
    /\ input \in FrameInputs
    /\ acc = FrameBuilder_default
    /\ idx = 0
    /\ calls = <<>>
    /\ result = <<>>

\* `.and_then(|builder| builder.build().map_err(Error::DataBuildFailed))`
FrameBuild ==
    /\ pc = "returned"
    /\ pc' = "built"
    /\ result' = <<Frame_and_then_build(result[1])>>
    /\ UNCHANGED <<input, acc, idx, calls>>

NextFrame ==
    \/ DriverMismatch("Frame")
    \/ DriverEnter("Frame")
    \/ DriverCall(Frame_sub_rule_fns)
    \/ DriverReturn(Frame_sub_rule_fns)
    \/ FrameBuild

SpecFrame == InitFrame /\ [][NextFrame]_vars

FrameStepsAgree == pc = "built" => result[1] = Frame_try_from(input)

\* The Element nodes of a frame's body, in source order.
ElementPairs(frame_pair) ==
    SelectSeq(frame_pair.inner[3].inner, LAMBDA p : p.rule = "Element")

(***************************************************************************)
(* C8.  Frame construction parses every Element node of the frame body and *)
(* appends the result to the frame's element list in source order: a frame *)
(* whose body holds k Element nodes that all parse yields a Frame with     *)
(* exactly those k elements in that order.                                 *)
(***************************************************************************)
C8_ElementsAppended ==
    (/\ pc = "built"
     /\ input.rule = "Frame"
     /\ result[1].ok
     /\ Len(ElementPairs(input)) >= 1
     /\ \A i \in 1..Len(ElementPairs(input)) : Element_try_from(ElementPairs(input)[i]).ok) =>
        /\ "elements" \in DOMAIN result[1].val
        /\ result[1].val.elements =
               [i \in 1..Len(ElementPairs(input)) |->
                   Element_try_from(ElementPairs(input)[i]).val]

(***************************************************************************)
(* SpecFrames: Frames::try_from on a Frames node of up to MaxFrames frames *)
(* numbered 0..MaxFrameNumber, step by step.  Every frame of the node is   *)
(* complete, except at most one that has a bad `pic` value or lacks its    *)
(* `state`.                                                                *)
(***************************************************************************)
FrameDefects == {"bad_pic", "no_state"}

ShapedFrame(number, shape) ==
    FrameNode(IntToText(number), <<"S">>,
              CASE shape = "bad_pic"  ->
                       <<FrameTagNode("TagPic", <<"a", "b", "c">>)>> \o Tail(RequiredFrameTags)
                [] shape = "no_state" ->
                       <<RequiredFrameTags[1]>> \o Tail(Tail(RequiredFrameTags))
                [] OTHER              -> RequiredFrameTags)

\* The frames numbered by `numbers`, the one at `at` (if any) having `defect`.
ShapedFrames(numbers, at, defect) ==
    [i \in 1..Len(numbers) |-> ShapedFrame(numbers[i], IF i = at THEN defect ELSE "plain")]

FramesInputs ==
    {Node("Frames", Placed(ShapedFrames(numbers, at, defect))) :
        numbers \in SeqsUpTo(0..MaxFrameNumber, MaxFrames),
        at \in 0..MaxFrames,
        defect \in FrameDefects}
    \cup {Node("Header", <<>>)}

InitFrames ==
    /\ pc = "start"
    /\ input \in FramesInputs
    /\ acc = Frames_builder
    /\ idx = 0
    /\ calls = <<>>
    /\ result = <<>>

\* `?` on the result of parse_as_type, then `Self::validate`.
FramesValidate ==
    /\ pc = "returned"
    /\ pc' = "validated"
    /\ result' = <<IF result[1].ok THEN Frames_validate(result[1].val) ELSE result[1]>>
    /\ UNCHANGED <<input, acc, idx, calls>>

NextFrames ==
    \/ DriverMismatch("Frames")
    \/ DriverEnter("Frames")
    \/ DriverCall(Frames_sub_rule_fns)
    \/ DriverReturn(Frames_sub_rule_fns)
    \/ FramesValidate

SpecFrames == InitFrames /\ [][NextFrames]_vars

FramesStepsAgree == pc = "validated" => result[1] = Frames_try_from(input)

\* The fold by halves is the fold.
FoldsAgree ==
    (pc = "returned" /\ input.rule = "Frames") =>
        result[1] = TryFoldRange(Frames_builder, 0, ZipLen(input.inner, Frames_sub_rule_fns),
                                 input.inner, Frames_sub_rule_fns)

\* The children of the Frames node that parse as a Frame, in source order.
ParsedPairs(frames_pair) == SelectSeq(frames_pair.inner, LAMBDA p : Frame_try_from(p).ok)

FrameNumberOf(frame_pair) == Frame_try_from(frame_pair).val.number

\* Some frame number is carried by two or more of the parsed frames.
HasDuplicate(pairs) ==
    \E i, j \in 1..Len(pairs) : i # j /\ FrameNumberOf(pairs[i]) = FrameNumberOf(pairs[j])

(***************************************************************************)
(* C1.  For any sequence of successfully parsed frames in which some       *)
(* FrameNumber is carried by two or more frames, construction fails with   *)
(* FrameNumberNonUnique whose frame_number is a duplicated number and      *)
(* whose frame_pairs holds the source node of every frame carrying that    *)
(* number, all occurrences, in source order.                               *)
(***************************************************************************)
C1_DuplicateRejected ==
    (pc = "validated" /\ input.rule = "Frames" /\ HasDuplicate(ParsedPairs(input))) =>
        /\ ~result[1].ok
        /\ result[1].err.variant = "FrameNumberNonUnique"
        /\ LET n       == result[1].err.frame_number
               carrying == SelectSeq(ParsedPairs(input), LAMBDA p : FrameNumberOf(p) = n)
           IN  /\ Len(carrying) >= 2
               /\ result[1].err.frame_pairs = carrying

\* Three frames carry the same number, and the error lists the three.
C1_Witness ==
    /\ pc = "validated"
    /\ input.rule = "Frames"
    /\ ~result[1].ok
    /\ result[1].err.variant = "FrameNumberNonUnique"
    /\ Len(result[1].err.frame_pairs) = 3
    /\ result[1].err.frame_pairs[3].pos = 3

(***************************************************************************)
(* C2.  Frames::try_from propagates frame errors: if any child Frame node  *)
(* fails to parse, Frames construction returns that error, so that an Ok   *)
(* result always holds one Frame per Frame node of the source.             *)
(***************************************************************************)
C2_FrameErrorsPropagate ==
    (pc = "validated" /\ input.rule = "Frames") =>
        /\ \A i \in 1..Len(input.inner) :
               (/\ ~Frame_try_from(input.inner[i]).ok
                /\ \A j \in 1..(i - 1) : Frame_try_from(input.inner[j]).ok) =>
                   result[1] = Frame_try_from(input.inner[i])
        /\ result[1].ok => Len(result[1].val) = Len(input.inner)

(***************************************************************************)
(* C3.  For a Frames node whose frames all parse individually and carry    *)
(* pairwise distinct frame numbers, Frames::try_from returns Ok with       *)
(* exactly those frames, one per child node, in source order.              *)
(***************************************************************************)
C3_DistinctAccepted ==
    (/\ pc = "validated"
     /\ input.rule = "Frames"
     /\ Len(ParsedPairs(input)) = Len(input.inner)
     /\ ~HasDuplicate(input.inner)) =>
        result[1] = Ok([i \in 1..Len(input.inner) |-> Frame_try_from(input.inner[i]).val])

\* Three frames numbered 1, 0, 2 were accepted in that order.
C3_Witness ==
    /\ pc = "validated"
    /\ input.rule = "Frames"
    /\ result[1].ok
    /\ Len(input.inner) = 3
    /\ Len(result[1].val) = 3
    /\ result[1].val[1].number = 1
    /\ result[1].val[2].number = 0
    /\ result[1].val[3].number = 2

(***************************************************************************)
(* SpecHeader: Header::try_from on a node, step by step.  The node is a    *)
(* header whose tags stand in declaration order, with up to                *)
(* MaxHeaderMissing of them left out and up to MaxHeaderFiles sprite       *)
(* files, or with at most one left out and one value that does not parse;  *)
(* or, once, another node.                                                 *)
(***************************************************************************)
HeaderTagNode(child) == Node("HeaderTag", <<child>>)

\* `file(0-69): sys\bandit_0.bmp  w: 79  h: 79  row: 10  col: 7`
StandSpriteFile ==
    Node("SpriteFile",
         <<TagNode("TagFileValue", <<"a", ".", "b", "m", "p">>), TagNode("TagW", <<"7", "9">>),
           TagNode("TagH", <<"7", "9">>), TagNode("TagRow", <<"1", "0">>),
           TagNode("TagCol", <<"7">>)>>)

HeaderTagText(kind) ==
    CASE kind = "text"  -> <<"B", "a", "n", "d", "i", "t">>
      [] kind = "path"  -> <<"f", ".", "b", "m", "p">>
      [] kind = "int"   -> <<"3">>
      [] kind = "float" -> <<"4", ".", "5", "0">>

\* The fields whose value may be the text `abc`.
HeaderBadFields == {"running_frame_rate", "jump_height"}

\* The tags of HeaderTags from row i on, without those of the fields in
\* missing; the field bad has the value `abc`.  The sprite files follow `small`.
RECURSIVE HeaderBody(_, _, _, _)
HeaderBody(i, missing, bad, files) ==
    IF i > Len(HeaderTags) THEN <<>>
    ELSE LET tag  == HeaderTags[i]
             text == IF tag.field = bad THEN <<"a", "b", "c">> ELSE HeaderTagText(tag.kind)
         IN  (IF tag.field \in missing THEN <<>>
              ELSE <<HeaderTagNode(TagNode(tag.rule, text))>>)
             \o (IF tag.field = "small"
                 THEN [j \in 1..files |-> HeaderTagNode(StandSpriteFile)] ELSE <<>>)
             \o HeaderBody(i + 1, missing, bad, files)

HeaderNode(missing, bad, files) ==
    Node("Header", <<Node("HeaderData", HeaderBody(1, missing, bad, files))>>)

\* The subsets of S of at most k elements.
RECURSIVE SubsetsUpTo(_, _)
SubsetsUpTo(S, k) ==
    IF k = 0 THEN {{}}
    ELSE LET smaller == SubsetsUpTo(S, k - 1) IN
         smaller \cup {m \cup {x} : m \in smaller, x \in S}

HeaderInputs ==
    LET fields == {HeaderTags[i].field : i \in DOMAIN HeaderTags} IN
    {HeaderNode(missing, "none", files) :
        missing \in SubsetsUpTo(fields, MaxHeaderMissing), files \in 0..MaxHeaderFiles}
    \cup {HeaderNode(missing, bad, files) :
            missing \in SubsetsUpTo(fields, 1), bad \in HeaderBadFields,
            files \in 0..MaxHeaderFiles}
    \cup {Node("Frames", <<>>)}

InitHeader ==
    /\ pc = "start"
    /\ input \in HeaderInputs
    /\ acc = HeaderBuilder_default
    /\ idx = 0
    /\ calls = <<>>
    /\ result = <<>>

\* `.and_then(|builder| builder.build().map_err(Error::DataBuildFailed))`
HeaderBuild ==
    /\ pc = "returned"
    /\ pc' = "built"
    /\ result' = <<IF result[1].ok THEN HeaderBuilder_build(result[1].val)
                   ELSE result[1]>>
    /\ UNCHANGED <<input, acc, idx, calls>>

NextHeader ==
    \/ DriverMismatch("Header")
    \/ DriverEnter("Header")
    \/ DriverCall(Header_sub_rule_fns)
    \/ DriverReturn(Header_sub_rule_fns)
    \/ HeaderBuild

SpecHeader == InitHeader /\ [][NextHeader]_vars

\* The fields a header node has a tag for.
HeaderFieldsIn(node) ==
    LET tags == node.inner[1].inner IN
    {HeaderTags[i].field : i \in {j \in DOMAIN HeaderTags :
        \E k \in DOMAIN tags : tags[k].inner[1].rule = HeaderTags[j].rule}}
    \cup (IF \E k \in DOMAIN tags : tags[k].inner[1].rule = "SpriteFile"
          THEN {"file"} ELSE {})

\* Some tag of the header node has the value `abc` where a number is due.
HeaderHasBadValue(node) ==
    LET tags == node.inner[1].inner IN
    \E k \in DOMAIN tags, i \in DOMAIN HeaderTags :
        /\ tags[k].inner[1].rule = HeaderTags[i].rule
        /\ HeaderTags[i].kind \in {"int", "float"}
        /\ tags[k].inner[1].inner[1].str = <<"a", "b", "c">>

(***************************************************************************)
(* C14.  Header::try_from succeeds only if the node sets name, head,       *)
(* small, the sprite-file list and each of the 18 movement constants; when *)
(* every value parses and some field is not set, the result is the build   *)
(* error naming the first field, in declaration order, that is not set.    *)
(***************************************************************************)
C14_HeaderRequiresAllFields ==
    (pc = "built" /\ input.rule = "Header") =>
        LET set     == HeaderFieldsIn(input)
            Unset(i) == HeaderFields[i] \notin set
        IN  /\ Len(HeaderFields) = 22
            /\ result[1].ok => \A i \in DOMAIN HeaderFields : ~Unset(i)
            /\ (~HeaderHasBadValue(input) /\ \A i \in DOMAIN HeaderFields : ~Unset(i)) =>
                   result[1].ok
            /\ \A i \in DOMAIN HeaderFields :
                   (/\ ~HeaderHasBadValue(input)
                    /\ Unset(i)
                    /\ \A j \in 1..(i - 1) : ~Unset(j)) =>
                       result[1] = Err([variant |-> "DataBuildFailed",
                                        field |-> HeaderFields[i]])

\* A header without sprite files and without `dash_height` failed to build
\* for want of `file`.
C14_Witness ==
    /\ pc = "built"
    /\ input = HeaderNode({"dash_height"}, "none", 0)
    /\ result = <<Err([variant |-> "DataBuildFailed", field |-> "file"])>>

(***************************************************************************)
(* SpecObject: ObjectData::try_from on a text, step by step, from what the *)
(* grammar gave for the text: a pest error, or the top-level pairs, the    *)
(* first of which is an Object node with up to three children (or, once,   *)
(* another node), followed by up to MaxSurplus further pairs.              *)
(* pc: "start" -> "header" -> "frames" -> "surplus" -> "done".             *)
(***************************************************************************)
ObjectHeaderOptions ==
    {HeaderNode({}, "none", 1), HeaderNode({"name"}, "none", 1),
     HeaderNode({}, "jump_height", 1), Node("Frames", <<>>)}

ObjectFramesOptions ==
    {Node("Frames", Placed(ShapedFrames(<<0, 1>>, 0, "bad_pic"))),
     Node("Frames", Placed(ShapedFrames(<<1, 1>>, 0, "bad_pic"))),
     Node("Frames", Placed(ShapedFrames(<<0, 1>>, 1, "bad_pic"))),
     Node("Frame", <<>>)}

ObjectNodes ==
    {Node("Object", children) :
        children \in {<<>>} \cup {<<h>> : h \in ObjectHeaderOptions}
                     \cup {<<h, f>> : h \in ObjectHeaderOptions, f \in ObjectFramesOptions}
                     \cup {<<h, f, Node("EOI", <<>>)>> :
                              h \in {HeaderNode({}, "none", 1)}, f \in ObjectFramesOptions}}
    \cup {Node("Header", <<>>)}

ObjectInputs ==
    {Err("pest"), Ok(<<>>)}
    \cup {Ok(<<object>> \o [i \in 1..k |-> At(Node("EOI", <<>>), i)]) :
            object \in ObjectNodes, k \in 0..MaxSurplus}

InitObject ==
    /\ pc = "start"
    /\ input \in ObjectInputs
    /\ acc = ObjectData_default
    /\ idx = 0
    /\ calls = <<>>
    /\ result = <<>>

\* `ObjectDataParser::parse(..)?`, `.next().ok_or(Error::ObjectDataExpected)`
\* and the entry of parse_as_type on the first pair, with its builder and
\* its iterator over the children.
ObjectParse ==
    /\ pc = "start"
    /\ IF input.ok /\ input.val # <<>> /\ RuleMatches(Head(input.val), "Object")
       THEN /\ pc' = "fold"
            /\ acc' = ObjectData_try_from_entry([acc |-> acc, idx |-> idx]).acc
            /\ idx' = ObjectData_try_from_entry([acc |-> acc, idx |-> idx]).idx
            /\ UNCHANGED result
       ELSE /\ pc' = "done"
            /\ result' = Append(result, ObjectData_try_from_str(input))
            /\ UNCHANGED <<acc, idx>>
    /\ UNCHANGED <<input, calls>>

\* One round of the fold: the closure `fn` on child number `at`, if there is
\* such a child; its error ends try_from.
ObjectRound(at, fn, r) ==
    /\ calls' = Append(calls, [fn |-> fn, pair |-> Head(input.val).inner[at]])
    /\ IF r.ok
       THEN acc' = r.val /\ idx' = at /\ UNCHANGED <<pc, result>>
       ELSE pc' = "done" /\ result' = Append(result, r) /\ UNCHANGED <<acc, idx>>
    /\ UNCHANGED input

ObjectHeader ==
    /\ pc = "fold"
    /\ idx = 0
    /\ Len(Head(input.val).inner) >= 1
    /\ ObjectRound(1, "header", ObjectData_header(acc, Head(input.val).inner[1]))

ObjectFrames ==
    /\ pc = "fold"
    /\ idx = 1
    /\ Len(Head(input.val).inner) >= 2
    /\ ObjectRound(2, "frames", ObjectData_frames(acc, Head(input.val).inner[2]))

\* The zip of the children with the two closures is exhausted.
ObjectFoldEnd ==
    /\ pc = "fold"
    /\ idx >= 2 \/ Len(Head(input.val).inner) <= idx
    /\ pc' = "surplus"
    /\ UNCHANGED <<input, acc, idx, calls, result>>

ObjectSurplus ==
    /\ pc = "surplus"
    /\ pc' = "done"
    /\ result' = Append(result, ObjectData_surplus(Ok(acc), Tail(input.val)))
    /\ UNCHANGED <<input, acc, idx, calls>>

NextObject ==
    \/ ObjectParse
    \/ ObjectHeader
    \/ ObjectFrames
    \/ ObjectFoldEnd
    \/ ObjectSurplus

SpecObject == InitObject /\ [][NextObject]_vars

\* The steps end in what try_from returns at once.
ObjectStepsAgree == (pc = "done") => result[1] = ObjectData_try_from_str(input)

(***************************************************************************)
(* C12.  ObjectData::try_from(text): when the first Object pair has been   *)
(* built into an ObjectData and a further pair follows, the result is      *)
(* Err(ObjectDataSurplus) carrying exactly that ObjectData and the pairs   *)
(* not consumed; when none follows, the result is Ok of that ObjectData;   *)
(* and no error of another variant carries an ObjectData.                  *)
(***************************************************************************)
C12_SurplusCarriesObjectData ==
    (pc = "done") =>
        \* every closure that ran succeeded: acc is the ObjectData built
        /\ (idx = Len(calls) /\ input.ok /\ input.val # <<>>
                /\ RuleMatches(Head(input.val), "Object")) =>
               IF Len(input.val) > 1
               THEN result[1] = Err([variant |-> "ObjectDataSurplus",
                                     object_data |-> acc,
                                     surplus_pairs |-> SubSeq(input.val, 2, Len(input.val))])
               ELSE result[1] = Ok(acc)
        /\ (~result[1].ok /\ result[1].err.variant # "ObjectDataSurplus") =>
               "object_data" \notin DOMAIN result[1].err

\* A header and two frames were built, two pairs follow, and the error
\* carries the ObjectData and both pairs.
C12_Witness ==
    /\ pc = "done"
    /\ input.ok
    /\ Len(input.val) = 3
    /\ Len(calls) = 2
    /\ ~result[1].ok
    /\ result[1].err.variant = "ObjectDataSurplus"
    /\ Len(result[1].err.object_data.frames) = 2
    /\ result[1].err.object_data.header.name = <<"B", "a", "n", "d", "i", "t">>
    /\ result[1].err.surplus_pairs = <<At(Node("EOI", <<>>), 1), At(Node("EOI", <<>>), 2)>>

(***************************************************************************)
(* C13.  ObjectData::try_from on an Object node runs the Header parser on  *)
(* the first child and only then the Frames parser on the second; when the *)
(* header fails, the Frames parser never runs and the header's error is    *)
(* what try_from returns.                                                  *)
(***************************************************************************)
C13_HeaderThenFrames ==
    /\ Len(calls) <= 2
    /\ Len(calls) >= 1 =>
           /\ calls[1] = [fn |-> "header", pair |-> Head(input.val).inner[1]]
           /\ ~Header_try_from(calls[1].pair).ok =>
                  /\ Len(calls) = 1
                  /\ pc = "done"
                  /\ result[1] = Header_try_from(calls[1].pair)
    /\ Len(calls) = 2 =>
           calls[2] = [fn |-> "frames", pair |-> Head(input.val).inner[2]]

\* A header without a name, followed by a Frames node: one call, and the
\* build error of the header returned.
C13_Witness ==
    /\ pc = "done"
    /\ input.ok
    /\ input.val # <<>>
    /\ Len(Head(input.val).inner) = 2
    /\ Head(input.val).inner[2].rule = "Frames"
    /\ Len(calls) = 1
    /\ result = <<Err([variant |-> "DataBuildFailed", field |-> "name"])>>

(***************************************************************************)
(* SpecFields: try_from of each element, of Frame and of Header on a node, *)
(* and the message of the error it returned.  An element has up to         *)
(* MaxFieldTags tags, each with a good value, the value `abc`, or of a     *)
(* kind the element does not have; a frame and a header have every tag    *)
(* they need, and at most one more or one `abc` value.                     *)
(***************************************************************************)
Abc == <<"a", "b", "c">>

FieldTagOptions ==
    {TagNode("TagX", <<"1", "0">>), TagNode("TagX", Abc), TagNode("TagY", <<"-", "5">>),
     TagNode("TagKind", <<"1">>), TagNode("TagKind", Abc), TagNode("TagZWidth", <<"7">>),
     TagNode("TagCover", <<"1">>), TagNode("TagDVx", Abc), TagNode("TagMp", <<"5">>),
     TagNode("TagAction", Abc), TagNode("TagFacing", <<"2", "1">>)}

FieldFrameOptions ==
    {<<>>, <<FrameTagNode("TagWait", <<"3">>)>>, <<FrameTagNode("TagWait", Abc)>>,
     <<FrameTagNode("TagMp", Abc)>>, <<FrameTagNode("TagHitDa", <<"7">>)>>}

FieldInputs ==
    {[ty |-> kind, pair |-> KindNode(kind, tags)] :
        kind \in ElementKinds, tags \in SeqsUpTo(FieldTagOptions, MaxFieldTags)}
    \cup {[ty |-> "Frame",
           pair |-> FrameNode(<<"0">>, <<"S", "t", "a", "n", "d">>, RequiredFrameTags \o extra)] :
            extra \in FieldFrameOptions}
    \cup {[ty |-> "Header", pair |-> HeaderNode({}, bad, 0)] :
            bad \in {"none"} \cup HeaderBadFields}

InitFields ==
    /\ pc = "start"
    /\ input \in FieldInputs
    /\ acc = None
    /\ idx = 0
    /\ calls = <<>>
    /\ result = <<>>

BdyTryFrom ==
    /\ pc = "start"
    /\ input.ty = "Bdy"
    /\ Returns(Bdy_try_from(input.pair))

BPointTryFrom ==
    /\ pc = "start"
    /\ input.ty = "BPoint"
    /\ Returns(BPoint_try_from(input.pair))

WPointTryFrom ==
    /\ pc = "start"
    /\ input.ty = "WPoint"
    /\ Returns(WPoint_try_from(input.pair))

ItrTryFrom ==
    /\ pc = "start"
    /\ input.ty = "Itr"
    /\ Returns(Tagged_try_from("Itr", input.pair))

CPointTryFrom ==
    /\ pc = "start"
    /\ input.ty = "CPoint"
    /\ Returns(Tagged_try_from("CPoint", input.pair))

OPointTryFrom ==
    /\ pc = "start"
    /\ input.ty = "OPoint"
    /\ Returns(Tagged_try_from("OPoint", input.pair))

FrameTryFrom ==
    /\ pc = "start"
    /\ input.ty = "Frame"
    /\ Returns(Frame_try_from(input.pair))

HeaderTryFrom ==
    /\ pc = "start"
    /\ input.ty = "Header"
    /\ Returns(Header_try_from(input.pair))

\* to_string() of the error try_from returned, when it is one raised on a
\* value: the message is kept in acc.
FieldsDisplayError ==
    /\ pc = "done"
    /\ ~result[1].ok
    /\ result[1].err.variant \in {"ParseInt", "ParseFloat"} \cup DOMAIN ErrorLabels
    /\ acc' = Some(Error_fmt(result[1].err))
    /\ pc' = "displayed"
    /\ UNCHANGED <<input, idx, calls, result>>

NextFields ==
    \/ BdyTryFrom
    \/ BPointTryFrom
    \/ WPointTryFrom
    \/ ItrTryFrom
    \/ CPointTryFrom
    \/ OPointTryFrom
    \/ FrameTryFrom
    \/ HeaderTryFrom
    \/ FieldsDisplayError

SpecFields == InitFields /\ [][NextFields]_vars

\* try_from of the type named ty.
TryFromOf(ty, pair) ==
    CASE ty = "Bdy"    -> Bdy_try_from(pair)
      [] ty = "BPoint" -> BPoint_try_from(pair)
      [] ty = "WPoint" -> WPoint_try_from(pair)
      [] ty \in TaggedKinds -> Tagged_try_from(ty, pair)
      [] ty = "Frame"  -> Frame_try_from(pair)
      [] ty = "Header" -> Header_try_from(pair)

\* The tags of the input, in source order.
FieldTagsOf(in) ==
    LET holders == CASE in.ty \in ElementKinds -> in.pair.inner[1].inner
                     [] in.ty = "Frame"        -> in.pair.inner[3].inner
                     [] in.ty = "Header"       -> in.pair.inner[1].inner
    IN  [i \in DOMAIN holders |-> holders[i].inner[1]]

\* What the declaration of each type says of the tag of rule `rule`: the
\* field it fills, the class of the field's type ("int", "flag", "float",
\* "own" for a type with an error variant of its own, "text"), and the
\* label of the field in a message.  <<>> for a tag the type does not have.
TagFacts(ty, rule) ==
    LET Row(field, class, label) == <<[field |-> field, class |-> class, label |-> label]>>
        IntRow(field, label) == Row(field, "int", label)
        tagged == IF ty \in TaggedKinds THEN TaggedTags(ty) ELSE <<>>
        frame  == IF ty = "Frame" THEN FrameTags ELSE <<>>
        header == IF ty = "Header" THEN HeaderTags ELSE <<>>
    IN  CASE ty = "Bdy" ->
                 CASE rule = "TagKind" -> Row("kind", "own", "bdy: kind:")
                   [] rule = "TagX" -> IntRow("x", "x")
                   [] rule = "TagY" -> IntRow("y", "y")
                   [] rule = "TagW" -> IntRow("w", "w")
                   [] rule = "TagH" -> IntRow("h", "h")
                   [] OTHER -> <<>>
          [] ty = "BPoint" ->
                 CASE rule = "TagX" -> IntRow("x", "x")
                   [] rule = "TagY" -> IntRow("y", "y")
                   [] OTHER -> <<>>
          [] ty = "WPoint" ->
                 CASE rule = "TagKind" -> Row("kind", "own", "wpoint: kind:")
                   [] rule = "TagX" -> IntRow("x", "x")
                   [] rule = "TagY" -> IntRow("y", "y")
                   [] rule = "TagWeaponAct" -> Row("weapon_act", "own", "weaponact:")
                   [] rule = "TagAttacking" -> Row("attacking", "own", "wpoint: attacking:")
                   [] rule = "TagDVx" -> IntRow("d_vx", "dvx")
                   [] rule = "TagDVy" -> IntRow("d_vy", "dvy")
                   [] OTHER -> <<>>
          [] ty \in TaggedKinds ->
                 IF \E i \in DOMAIN tagged : tagged[i].rule = rule
                 THEN LET tag == tagged[CHOOSE i \in DOMAIN tagged : tagged[i].rule = rule] IN
                      CASE tag.type \in {"i32", "i64", "isize", "u32", "usize"} ->
                               IntRow(tag.field, tag.name)
                        [] tag.type = "bool" -> Row(tag.field, "flag", tag.name)
                        [] tag.type = "OPointFacing" -> Row(tag.field, "facing", tag.name)
                        [] OTHER -> Row(tag.field, "own", ErrorLabels[tag.name])
                 ELSE <<>>
          [] ty = "Frame" ->
                 IF \E i \in DOMAIN frame : frame[i].rule = rule
                 THEN LET tag == frame[CHOOSE i \in DOMAIN frame : frame[i].rule = rule] IN
                      CASE tag.field = "sound" -> Row(tag.field, "text", tag.name)
                        [] tag.field = "state" -> Row(tag.field, "own", "state")
                        [] OTHER -> IntRow(tag.field, tag.name)
                 ELSE <<>>
          [] ty = "Header" ->
                 IF \E i \in DOMAIN header : header[i].rule = rule
                 THEN LET tag == header[CHOOSE i \in DOMAIN header : header[i].rule = rule] IN
                      Row(tag.field,
                          IF tag.kind \in {"int", "float"} THEN tag.kind ELSE "text", tag.name)
                 ELSE <<>>

\* The input without the tags its type does not have.
Recognised(in) ==
    LET tags == in.pair.inner[1].inner
        kept == {i \in DOMAIN tags : TagFacts(in.ty, tags[i].inner[1].rule) # <<>>}
        Nth(n) == CHOOSE i \in kept : Cardinality({j \in kept : j < i}) = n - 1
    IN  KindNode(in.ty, [n \in 1..Cardinality(kept) |-> tags[Nth(n)].inner[1]])

Contains(msg, piece) == \E i \in DOMAIN msg : msg[i] = piece

C16_UnknownTagIgnored ==
    (pc = "done" /\ input.ty \in ElementKinds) =>
        LET tags == FieldTagsOf(input) IN
        /\ result[1] = TryFromOf(input.ty, Recognised(input))
        /\ \A i \in DOMAIN tags :
               TagFacts(input.ty, tags[i].rule) = <<>> =>
                   \A element \in {TryFromOf(input.ty, KindNode(input.ty, <<>>)).val} :
                       Call(input.ty \o "::parse_tag_value", element, tags[i]) = Ok(element)

\* An Itr with a tag it does not have before its x tag was parsed, and x
\* was read.
C16_Witness ==
    /\ pc = "done"
    /\ input.ty = "Itr"
    /\ FieldTagsOf(input) = <<TagNode("TagMp", <<"5">>), TagNode("TagX", <<"1", "0">>)>>
    /\ result[1].ok
    /\ result[1].val.x = 10
    /\ result[1] = Tagged_try_from("Itr", KindNode("Itr", <<TagNode("TagX", <<"1", "0">>)>>))

\* The tags of the input whose value is the text `abc` and whose field is a
\* number: an integer, a flag or a facing (parsed as u32), a float, or a
\* code or frame number with an error variant of its own ("own").
AbcTags(in, classes) ==
    LET tags == FieldTagsOf(in) IN
    {i \in DOMAIN tags :
        /\ Len(tags[i].inner) > 0
        /\ tags[i].inner[1].str = Abc
        /\ TagFacts(in.ty, tags[i].rule) # <<>>
        /\ TagFacts(in.ty, tags[i].rule)[1].class \in classes}

\* The tag try_from fails on: the first that fails when it is the only tag
\* of the element (a frame and a header of FieldInputs have no other defect
\* than a value `abc`).
FirstFailing(in) ==
    LET tags == FieldTagsOf(in)
        Fails(i) == IF in.ty \in ElementKinds
                    THEN ~TryFromOf(in.ty, KindNode(in.ty, <<tags[i]>>)).ok
                    ELSE i \in AbcTags(in, {"int", "flag", "facing", "float", "own"})
    IN  {i \in DOMAIN tags : Fails(i) /\ \A j \in 1..(i - 1) : ~Fails(j)}

WithHeaderValue(object, rule, text) ==
    LET header == object.inner[1]
        data   == header.inner[1]
        tags   == [i \in DOMAIN data.inner |->
                      IF data.inner[i].inner[1].rule = rule
                      THEN HeaderTagNode(TagNode(rule, text))
                      ELSE data.inner[i]]
    IN  [object EXCEPT !.inner[1] = [header EXCEPT !.inner[1] = [data EXCEPT !.inner = tags]]]

TwiceInputs ==
    ObjectInputs
    \cup {Ok(<<WithHeaderValue(Node("Object", <<HeaderNode({}, "none", 1), f>>),
                               "TagWalkingSpeed", <<"N", "a", "N">>)>>) :
            f \in ObjectFramesOptions}

InitTwice ==
    /\ pc = "start"
    /\ input \in TwiceInputs
    /\ acc = ObjectData_default
    /\ idx = 0
    /\ calls = <<>>
    /\ result = <<>>

\* The caller calls try_from again on the text it still holds.
ObjectAgain ==
    /\ pc = "done"
    /\ Len(result) = 1
    /\ pc' = "start"
    /\ calls' = <<>>
    /\ UNCHANGED <<input, acc, idx, result>>

NextTwice ==
    \/ ObjectParse
    \/ ObjectHeader
    \/ ObjectFrames
    \/ ObjectFoldEnd
    \/ ObjectSurplus
    \/ ObjectAgain

SpecTwice == InitTwice /\ [][NextTwice]_vars

\* The ObjectData an outcome carries, if any: the value, or the one inside
\* ObjectDataSurplus.
Carried(r) ==
    IF r.ok THEN <<r.val>>
    ELSE IF r.err.variant = "ObjectDataSurplus" THEN <<r.err.object_data>>
    ELSE <<>>

HasNaN(object_data) ==
    \E i \in DOMAIN HeaderTags :
        /\ HeaderTags[i].kind = "float"
        /\ object_data.header[HeaderTags[i].field] = F32_NAN

(***************************************************************************)
(* C18 as stated.  Two calls of ObjectData::try_from on the same text give *)
(* the same outcome: two values that are `==` when the text is valid, the  *)
(* same error when it is not.                                              *)
(***************************************************************************)
C18_SameOutcomeTwice ==
    (pc = "done" /\ Len(result) = 2) =>
        IF result[1].ok
        THEN result[2].ok /\ ObjectData_eq(result[1].val, result[2].val)
        ELSE result[2] = result[1]

(***************************************************************************)
(* C18, field by field.  Two calls of ObjectData::try_from on the same     *)
(* text give the same outcome: the same value when the text is             *)
(* valid, the same error when it is not, and nothing the first call left   *)
(* changes the second.  The two values are `==` unless a float of the      *)
(* header is NaN.                                                          *)
(***************************************************************************)
C18_Deterministic ==
    (pc = "done" /\ Len(result) = 2) =>
        /\ result[2] = result[1]
        /\ (result[1].ok /\ ~HasNaN(result[1].val)) =>
               ObjectData_eq(result[1].val, result[2].val)

\* A text with a header and frames was parsed twice, to the same value with
\* one sprite file and two frames.
C18_Witness ==
    /\ pc = "done"
    /\ Len(result) = 2
    /\ result[1].ok
    /\ result[2] = result[1]
    /\ Len(result[1].val.frames) = 2
    /\ Len(result[1].val.header.file) = 1
    /\ ~HasNaN(result[1].val)

(***************************************************************************)
(* SpecOpen: ObjectData::open on a file, step by step, and, when the file  *)
(* was a `.dat` file the codec decoded, once more on a `.txt` file holding *)
(* the decoded bytes.  calls lists the functions open called; result holds *)
(* the file and the outcome of each call of open.                          *)
(***************************************************************************)
\* ObjectDataParser::parse(Rule::Object, text): the grammar is a black box
\* from a text to its tree of nodes or a pest error.  `A` stands for the
\* text of a complete object, `B` for one whose header lacks a name.
ObjectDataParser_parse(text) ==
    CASE text = <<"A">> ->
             Ok(<<Node("Object", <<HeaderNode({}, "none", 1),
                                   Node("Frames", Placed(ShapedFrames(<<0, 1>>, 0, "bad_pic")))>>)>>)
      [] text = <<"B">> -> Ok(<<Node("Object", <<HeaderNode({"name"}, "none", 0)>>)>>)
      [] OTHER -> Err("pest")

FileBytes == {65, 66, 67, 201}

FileExts == {None, Some("dat"), Some("txt"), Some("DAT")}

File(stem, ext, exists, bytes) ==
    [path |-> [stem |-> stem, ext |-> ext], exists |-> exists, bytes |-> bytes]

OpenInputs ==
    {File("bandit", ext, TRUE, bytes) :
        ext \in FileExts, bytes \in SeqsUpTo(FileBytes, MaxFileBytes)}
    \cup {File("bandit", ext, FALSE, <<>>) : ext \in FileExts}

InitOpen ==
    /\ pc = "start"
    /\ input \in OpenInputs
    /\ acc = None
    /\ idx = 0
    /\ calls = <<>>
    /\ result = <<>>

OpenReturns(text) ==
    /\ pc' = "done"
    /\ result' = Append(result, [file |-> input, text |-> text])

OpenFile ==
    /\ pc = "start"
    /\ calls' = Append(calls, "File::open")
    /\ IF File_open(input).ok
       THEN pc' = "opened" /\ acc' = Some(File_open(input).val) /\ UNCHANGED result
       ELSE OpenReturns(File_open(input)) /\ UNCHANGED acc
    /\ UNCHANGED <<input, idx>>

OpenDecode ==
    /\ pc = "opened"
    /\ needs_decode(input.path)
    /\ calls' = Append(calls, "DataDecoder::decode")
    /\ IF DataDecoder_decode(acc[1]).ok
       THEN pc' = "decoded" /\ acc' = Some(DataDecoder_decode(acc[1]).val) /\ UNCHANGED result
       ELSE OpenReturns(DataDecoder_decode(acc[1])) /\ UNCHANGED acc
    /\ UNCHANGED <<input, idx>>

OpenFromUtf8 ==
    /\ pc = "decoded"
    /\ calls' = Append(calls, "String::from_utf8")
    /\ OpenReturns(String_from_utf8(acc[1]))
    /\ UNCHANGED <<input, acc, idx>>

OpenReadToString ==
    /\ pc = "opened"
    /\ ~needs_decode(input.path)
    /\ calls' = Append(calls, "read_to_string")
    /\ OpenReturns(Read_to_string(input.path, acc[1]))
    /\ UNCHANGED <<input, acc, idx>>

\* The caller opens a `.txt` file whose content is the bytes the codec
\* gave for the `.dat` file.
OpenTwin ==
    /\ pc = "done"
    /\ Len(result) = 1
    /\ \E i \in DOMAIN calls : calls[i] = "String::from_utf8"
    /\ input' = File(input.path.stem, Some("txt"), TRUE, acc[1])
    /\ pc' = "start"
    /\ acc' = None
    /\ calls' = <<>>
    /\ UNCHANGED <<idx, result>>

NextOpen ==
    \/ OpenFile
    \/ OpenDecode
    \/ OpenFromUtf8
    \/ OpenReadToString
    \/ OpenTwin

SpecOpen == InitOpen /\ [][NextOpen]_vars

OpenStepsAgree ==
    (pc = "done") => result[Len(result)].text = ObjectData_open(input)

\* ObjectData::try_from on the text open returned.
ObjectDataOf(text) ==
    IF text.ok THEN ObjectData_try_from_str(ObjectDataParser_parse(text.val)) ELSE text

(***************************************************************************)
(* C19.  ObjectData::open runs the codec on the file's bytes, before the   *)
(* UTF-8 decoding, exactly when the extension of the path is `dat`, and    *)
(* reads a file of any other extension directly as UTF-8 text; a `.dat`    *)
(* file and a plain file whose content is the decoded bytes of the `.dat`  *)
(* file give the same text and the same ObjectData.                        *)
(***************************************************************************)
C19_CodecTransparency ==
    (pc = "done") =>
        LET Called(fn) == \E i \in DOMAIN calls : calls[i] = fn
            first == result[1]
            twin  == result[2]
        IN  /\ Called("DataDecoder::decode") <=>
                   (input.exists /\ input.path.ext = Some("dat"))
            /\ Called("String::from_utf8") =>
                   calls = <<"File::open", "DataDecoder::decode", "String::from_utf8">>
            /\ (input.exists /\ input.path.ext # Some("dat")) =>
                   /\ calls = <<"File::open", "read_to_string">>
                   /\ Utf8Text(input.bytes).ok =>
                          result[Len(result)].text = Utf8Text(input.bytes)
            /\ Len(result) = 2 =>
                   /\ twin.file.bytes = DataDecoder_decode(first.file.bytes).val
                   /\ first.text.ok <=> twin.text.ok
                   /\ first.text.ok =>
                          /\ twin.text = first.text
                          /\ ObjectDataOf(twin.text) = ObjectDataOf(first.text)

\* A `.dat` file was decoded to the text `A`, the `.txt` file with the
\* decoded bytes was read to the same text, and that text is an object.
C19_Witness ==
    /\ pc = "done"
    /\ Len(result) = 2
    /\ result[1].file.path.ext = Some("dat")
    /\ result[1].file.bytes # result[2].file.bytes
    /\ result[1].text = Ok(<<"A">>)
    /\ result[2].text = Ok(<<"A">>)
    /\ ObjectDataOf(result[2].text).ok

(***************************************************************************)
(* SpecCli: `run` and `main` of src/main.rs and examples/demo.rs on the    *)
(* files named on the command line.  idx counts the arguments taken;       *)
(* calls holds what was printed, with the number of the file it is about.  *)
(***************************************************************************)
\* parse_object_data: every pair of the parse, `?` on the first error.
RECURSIVE parse_object_data_pairs(_)
parse_object_data_pairs(pairs) ==
    IF pairs = <<>> THEN Ok(<<>>)
    ELSE IF Head(pairs).rule = "Object" /\ ~ObjectData_try_from(Head(pairs)).ok
    THEN ObjectData_try_from(Head(pairs))
    ELSE parse_object_data_pairs(Tail(pairs))

parse_object_data(text) ==
    IF ObjectDataParser_parse(text).ok
    THEN parse_object_data_pairs(ObjectDataParser_parse(text).val)
    ELSE Err([variant |-> "PestError"])

\* The text of a file: examples/demo.rs decodes a `.dat` file as open does;
\* src/main.rs reads every file as text.
CliText(bin, file) ==
    IF bin = "demo" THEN ObjectData_open(file)
    ELSE IF File_open(file).ok THEN Read_to_string(file.path, file.bytes)
    ELSE File_open(file)

CliFiles ==
    {File("missing", Some("txt"), FALSE, <<>>), File("good", Some("txt"), TRUE, <<65>>),
     File("bad", Some("txt"), TRUE, <<66>>), File("binary", Some("txt"), TRUE, <<201>>),
     File("good", Some("dat"), TRUE, <<65, 66>>), File("empty", Some("dat"), TRUE, <<>>)}

CliInputs ==
    {[bin |-> bin, args |-> args] :
        bin \in {"main", "demo"}, args \in SeqsUpTo(CliFiles, MaxArgs)}

\* After `args_os.next()` has skipped the name of the program.
InitCli ==
    /\ pc = "loop"
    /\ input \in CliInputs
    /\ acc = None
    /\ idx = 0
    /\ calls = <<>>
    /\ result = <<>>

\* The closure of try_for_each on the next argument, when the file cannot
\* be opened, read or decoded: `?` returns the error, try_for_each stops and
\* `?` returns it from run.
CliOpenFails ==
    /\ pc = "loop"
    /\ idx < Len(input.args)
    /\ ~CliText(input.bin, input.args[idx + 1]).ok
    /\ idx' = idx + 1
    /\ pc' = "failed"
    /\ result' = <<CliText(input.bin, input.args[idx + 1])>>
    /\ UNCHANGED <<input, acc, calls>>

\* The closure on the next argument, when the text was read: the error of
\* parse_object_data is printed, and the closure returns Ok.
CliParse ==
    /\ pc = "loop"
    /\ idx < Len(input.args)
    /\ CliText(input.bin, input.args[idx + 1]).ok
    /\ idx' = idx + 1
    /\ calls' = The({IF parsed.ok THEN calls
                     ELSE Append(calls, [file |-> idx + 1, line |-> parsed.err]) :
                     parsed \in {parse_object_data(CliText(input.bin, input.args[idx + 1]).val)}})
    /\ UNCHANGED <<input, acc, pc, result>>

\* No argument is left: run returns Ok(()).
CliEnd ==
    /\ pc = "loop"
    /\ idx = Len(input.args)
    /\ pc' = "exit"
    /\ result' = <<Ok(<<>>)>>
    /\ UNCHANGED <<input, acc, idx, calls>>

\* main: `if let Err(e) = run() { eprintln!("{}", e); }`
CliMain ==
    /\ pc = "failed"
    /\ calls' = Append(calls, [file |-> idx, line |-> result[1].err])
    /\ pc' = "exit"
    /\ UNCHANGED <<input, acc, idx, result>>

NextCli ==
    \/ CliOpenFails
    \/ CliParse
    \/ CliEnd
    \/ CliMain

SpecCli == InitCli /\ [][NextCli]_vars

(***************************************************************************)
(* C20.  The CLI processes every file named on the command line: a failure *)
(* on one file (open, read, decode or parse) is printed and does not abort *)
(* processing, so when the program exits every file has been attempted and *)
(* every file that failed has its error printed.                           *)
(***************************************************************************)
C20_EveryFileAttempted ==
    (pc = "exit") =>
        /\ idx = Len(input.args)
        /\ \A k \in DOMAIN input.args :
               LET text == CliText(input.bin, input.args[k])
                   Fails == IF text.ok THEN ~parse_object_data(text.val).ok ELSE TRUE
               IN  Fails => \E i \in DOMAIN calls : calls[i].file = k

(***************************************************************************)
(* SpecValue: one call of ObjectDataParser::parse_value on a tag node with *)
(* no, one or two children.  calls lists the calls of the sub-parser.      *)
(***************************************************************************)
ValueTexts == {<<"1", "0">>, <<"-", "5">>, Abc}

ValueCallers ==
    {[fn |-> "Bdy::parse_x_value", builder |-> Bdy_default],
     [fn |-> "Bdy::parse_x_value", builder |-> [Bdy_default EXCEPT !.y = 7]],
     [fn |-> "Bdy::parse_kind_value", builder |-> [Bdy_default EXCEPT !.x = 7]],
     [fn |-> "BPoint::parse_y_value", builder |-> BPoint_default]}

ValueInputs ==
    {[tag_pair |-> Node(rule, children), fn |-> caller.fn, builder |-> caller.builder] :
        rule \in {"TagX", "TagKind"},
        children \in SeqsUpTo({ValueNode(text) : text \in ValueTexts}, MaxValueChildren),
        caller \in ValueCallers}

InitValue ==
    /\ pc = "start"
    /\ input \in ValueInputs
    /\ acc = input.builder
    /\ idx = 0
    /\ calls = <<>>
    /\ result = <<>>

\* `if let Some(value_pair) = .. { subrule_fn(builder, value_pair) }`
ValueCall ==
    /\ pc = "start"
    /\ ParseValue_next(input.tag_pair) # None
    /\ calls' = Append(calls, [fn |-> input.fn,
                               pair |-> ParseValue_next(input.tag_pair)[1],
                               builder |-> acc])
    /\ pc' = "returned"
    /\ result' = <<ParseValue(acc, input.tag_pair, input.fn)>>
    /\ UNCHANGED <<input, acc, idx>>

\* `else { Err(Error::ValueExpected { tag_pair }) }`
ValueMissing ==
    /\ pc = "start"
    /\ ParseValue_next(input.tag_pair) = None
    /\ pc' = "returned"
    /\ result' = <<ParseValue(acc, input.tag_pair, input.fn)>>
    /\ UNCHANGED <<input, acc, idx, calls>>

NextValue ==
    \/ ValueCall
    \/ ValueMissing

SpecValue == InitValue /\ [][NextValue]_vars

(***************************************************************************)
(* C21.  parse_value on a tag node applies the sub-parser it was given to  *)
(* the first child of the tag, with the accumulator it was given, and      *)
(* returns what the sub-parser returns; on a tag node without a child it   *)
(* returns ValueExpected carrying the tag node, and the sub-parser is not  *)
(* called.                                                                 *)
(***************************************************************************)
C21_ParseValue ==
    (pc = "returned") =>
        IF input.tag_pair.inner = <<>>
        THEN /\ result = <<Err([variant |-> "ValueExpected", tag_pair |-> input.tag_pair])>>
             /\ calls = <<>>
        ELSE /\ calls = <<[fn |-> input.fn, pair |-> input.tag_pair.inner[1],
                           builder |-> input.builder]>>
             /\ result = <<Call(input.fn, input.builder, input.tag_pair.inner[1])>>

\* A tag without a child, given with an accumulator that is not the
\* default: ValueExpected, and no call of the sub-parser.
C21_Witness ==
    /\ pc = "returned"
    /\ input.tag_pair.inner = <<>>
    /\ input.builder # Bdy_default
    /\ input.fn = "Bdy::parse_x_value"
    /\ ~result[1].ok
    /\ result[1].err.variant = "ValueExpected"
    /\ calls = <<>>

(***************************************************************************)
(* C22.  The sign of a coded BdyKind encodes the facing flip: for every n  *)
(* in -1999..=-1000 the freed_frame parsed from n reports a flip           *)
(* (facing_switch() is true) with target frame |n| - 1000, and for every n *)
(* in 1000..=1999 it reports no flip with target frame n - 1000.           *)
(***************************************************************************)
C22_SignEncodesFlip ==
    (pc = "done" /\ input.ty = "BdyKind" /\ input.n # None) =>
        LET n == input.n[1]
            freed_frame == result[1].val.freed_frame
        IN  /\ n \in (0 - 1999)..(0 - 1000) =>
                   /\ result[1].ok
                   /\ result[1].val.variant = "Hostage"
                   /\ FrameNumberNext_facing_switch(freed_frame)
                   /\ FrameNumberNext_abs(freed_frame) = {[value |-> (0 - n) - 1000]}
            /\ n \in 1000..1999 =>
                   /\ result[1].ok
                   /\ result[1].val.variant = "Hostage"
                   /\ ~FrameNumberNext_facing_switch(freed_frame)
                   /\ FrameNumberNext_abs(freed_frame) = {[value |-> n - 1000]}

\* C22 for every code but -1000.
C22_FlipButFrameZero ==
    (pc = "done" /\ input.ty = "BdyKind" /\ input.n # None /\ input.n # Some(0 - 1000)) =>
        C22_SignEncodesFlip

(***************************************************************************)
(* C23.  OPointFacing::from_str decodes the packed facing value v: the     *)
(* direction is given by the low bit of v (even: same as the parent, odd:  *)
(* opposite to the parent) and the count by the remaining digits           *)
(* (v div 10), for every u32 value v.                                      *)
(***************************************************************************)
C23_FacingPacked ==
    (pc = "done" /\ input.ty = "OPointFacing" /\ input.n # None /\ input.n[1] >= 0) =>
        LET v == input.n[1] IN
        result[1] = Ok([count |-> v \div 10,
                        direction |-> IF v % 2 = 0 THEN "ParentSame" ELSE "ParentOpposite"])

(***************************************************************************)
(* C23, amended.  For every u32 value v other than 0, 1 and 10 the         *)
(* direction is given by the low bit of v and the count is v div 10; 0 and *)
(* 1 decode to one object facing as the parent and opposite to it, and 10  *)
(* to one object facing right.  A text that is not a u32 is an error.      *)
(***************************************************************************)
C23_FacingDecode ==
    (pc = "done" /\ input.ty = "OPointFacing") =>
        IF input.n # None /\ input.n[1] >= 0 /\ input.s = IntToText(input.n[1])
        THEN LET v == input.n[1] IN
             result[1] =
                 Ok(IF v \in {0, 1}
                    THEN [count |-> 1,
                          direction |-> IF v = 0 THEN "ParentSame" ELSE "ParentOpposite"]
                    ELSE IF v = 10 THEN [count |-> 1, direction |-> "Right"]
                    ELSE [count |-> v \div 10,
                          direction |-> IF v % 2 = 0 THEN "ParentSame" ELSE "ParentOpposite"])
        ELSE input.n # None => ~result[1].ok

\* `facing: 21` has been decoded to two objects facing opposite to the
\* parent.
C23_Witness ==
    /\ pc = "done"
    /\ input.ty = "OPointFacing"
    /\ input.s = <<"2", "1">>
    /\ result = <<Ok([count |-> 2, direction |-> "ParentOpposite"])>>

(***************************************************************************)
(* SpecHeaderTag: Header::parse_tag on one header tag, for every tag of    *)
(* the header and a choice of value texts, and the Display of its error.   *)
(***************************************************************************)
HeaderValueTexts ==
    {Abc, <<>>, <<"3">>, <<"-", "1">>, <<"4", ".", "5", "0">>, <<"N", "a", "N">>,
     <<"f", ".", "b", "m", "p">>}

HeaderTagInputs ==
    {HeaderTagNode(Node(HeaderTags[i].rule, <<At(ValueNode(text), p)>>)) :
        i \in DOMAIN HeaderTags, text \in HeaderValueTexts, p \in 0..MaxHeaderTagPos}

InitHeaderTag ==
    /\ pc = "start"
    /\ input \in HeaderTagInputs
    /\ acc = None
    /\ idx = 0
    /\ calls = <<>>
    /\ result = <<>>

HeaderParseTag ==
    /\ pc = "start"
    /\ Returns(Header_parse_tag(HeaderBuilder_default, input))

\* to_string() of the error: the message is kept in acc.
HeaderTagDisplayError ==
    /\ pc = "done"
    /\ ~result[1].ok
    /\ acc' = Some(Error_fmt(result[1].err))
    /\ pc' = "displayed"
    /\ UNCHANGED <<input, idx, calls, result>>

NextHeaderTag ==
    \/ HeaderParseTag
    \/ HeaderTagDisplayError

SpecHeaderTag == InitHeaderTag /\ [][NextHeaderTag]_vars

\* The row of HeaderTags for the tag that is parsed, and the value given.
HeaderTagOf(in) ==
    HeaderTags[CHOOSE i \in DOMAIN HeaderTags : HeaderTags[i].rule = in.inner[1].rule]

HeaderValueOf(in) == in.inner[1].inner[1]

NumberedFrames(n, first, order) ==
    Node("Frames",
         Placed(ShapedFrames([i \in 1..n |-> IF order = "up" THEN first + i - 1
                                              ELSE first + n - i],
                             0, "bad_pic")))

CapacityInputs ==
    {NumberedFrames(n, first, order) :
        n \in (FRAME_COUNT_MAX - 1)..(FRAME_COUNT_MAX + MaxOverCapacity),
        first \in 0..MaxFirstNumber,
        order \in {"up", "down"}}

InitCapacity ==
    /\ pc = "start"
    /\ input \in CapacityInputs
    /\ acc = Frames_builder
    /\ idx = 0
    /\ calls = <<>>
    /\ result = <<>>

\* The capacities a Vec of capacity `capacity` and length len grows to over
\* `pushes` pushes.
RECURSIVE Vec_growth(_, _, _)
Vec_growth(capacity, len, pushes) ==
    IF pushes = 0 THEN <<>>
    ELSE IF len + pushes <= capacity THEN <<>>
    ELSE IF len < capacity THEN Vec_growth(capacity, capacity, pushes - (capacity - len))
    ELSE <<Vec_capacity_after_push(capacity, len + 1)>>
         \o Vec_growth(Vec_capacity_after_push(capacity, len + 1), len + 1, pushes - 1)

\* The fold of parse_as_type: parse_frame on every child, in order.
FramesFold ==
    /\ pc = "fold"
    /\ result' = <<TryFoldRange(acc, 0, ZipLen(input.inner, Frames_sub_rule_fns),
                                input.inner, Frames_sub_rule_fns)>>
    /\ calls' = Vec_growth(FRAME_COUNT_MAX, 0, Len(result'[1].val[2]))
    /\ pc' = "returned"
    /\ UNCHANGED <<input, acc, idx>>

NextCapacity ==
    \/ DriverEnter("Frames")
    \/ FramesFold
    \/ FramesValidate

SpecCapacity == InitCapacity /\ [][NextCapacity]_vars

C26_ParallelLists ==
    (input.rule = "Frames" /\ pc \in {"fold", "returned", "validated"}) =>
        /\ Len(acc[1]) = Len(acc[2])
        /\ \A i \in 1..Len(acc[2]) : Frame_try_from(acc[1][i]) = Ok(acc[2][i])
        /\ (pc = "validated" /\ ~result[1].ok) =>
               LET indices == FrameNumberIndices(acc[2], result[1].err.frame_number) IN
               /\ Len(result[1].err.frame_pairs) = Len(indices)
               /\ \A k \in 1..Len(indices) :
                      /\ result[1].err.frame_pairs[k] = acc[1][indices[k]]
                      /\ FrameNumberOf(result[1].err.frame_pairs[k]) =
                             result[1].err.frame_number

\* The first frame of three fails to parse and the two after it collide: the
\* lists hold two entries, and the error lists the second and third nodes.
C26_Witness ==
    /\ pc = "validated"
    /\ input.rule = "Frames"
    /\ Len(input.inner) = 3
    /\ ~Frame_try_from(input.inner[1]).ok
    /\ Len(acc[1]) = 2
    /\ Len(acc[2]) = 2
    /\ ~result[1].ok
    /\ result[1].err.variant = "FrameNumberNonUnique"
    /\ result[1].err.frame_pairs = <<input.inner[2], input.inner[3]>>

(***************************************************************************)
(* SpecDuplicates: Frames::try_from on a Frames node of four to            *)
(* MaxDuplicateFrames complete frames numbered 0..MaxFrameNumber in every  *)
(* order, so that two numbers can each be used twice.                      *)
(***************************************************************************)
DuplicateNumbers ==
    {numbers \in SeqsUpTo(0..MaxFrameNumber, MaxDuplicateFrames) : Len(numbers) >= 4}

DuplicatesInputs ==
    {Node("Frames", Placed(ShapedFrames(numbers, 0, "bad_pic"))) : numbers \in DuplicateNumbers}

InitDuplicates ==
    /\ pc = "start"
    /\ input \in DuplicatesInputs
    /\ acc = Frames_builder
    /\ idx = 0
    /\ calls = <<>>
    /\ result = <<>>

SpecDuplicates == InitDuplicates /\ [][NextCapacity]_vars

\* The number written in a frame node, and the nodes of a Frames node that
\* are numbered n, in source order.
WrittenNumber(frame_pair) == ParseInt(frame_pair.inner[1].inner[1].str, FALSE).val

NodesNumbered(frames_pair, n) ==
    SelectSeq(frames_pair.inner, LAMBDA p : WrittenNumber(p) = n)

\* The numbers written in two or more frame nodes.
DuplicatedNumbers(frames_pair) ==
    {n \in {WrittenNumber(frames_pair.inner[i]) : i \in 1..Len(frames_pair.inner)} :
        Len(NodesNumbered(frames_pair, n)) >= 2}

(***************************************************************************)
(* C27.  When several different frame numbers are each used by more than   *)
(* one frame, Frames::validate returns exactly one FrameNumberNonUnique    *)
(* error: it is for the numerically smallest duplicated frame number,      *)
(* whatever the source order of the frames, and its frame_pairs lists the  *)
(* frames of that number only.                                             *)
(***************************************************************************)
C27_SmallestDuplicate ==
    (pc = "validated" /\ Cardinality(DuplicatedNumbers(input)) >= 2) =>
        /\ ~result[1].ok
        /\ result[1].err.variant = "FrameNumberNonUnique"
        /\ \A n \in DuplicatedNumbers(input) : result[1].err.frame_number <= n
        /\ result[1].err.frame_number \in DuplicatedNumbers(input)
        /\ result[1].err.frame_pairs = NodesNumbered(input, result[1].err.frame_number)

\* The frames are numbered 2, 1, 2, 1: the first collision in source order
\* is on 2, and the error is for 1, with the second and fourth nodes.
C27_Witness ==
    /\ pc = "validated"
    /\ Len(input.inner) = 4
    /\ WrittenNumber(input.inner[1]) = 2
    /\ WrittenNumber(input.inner[2]) = 1
    /\ WrittenNumber(input.inner[3]) = 2
    /\ WrittenNumber(input.inner[4]) = 1
    /\ ~result[1].ok
    /\ result[1].err.frame_number = 1
    /\ result[1].err.frame_pairs = <<input.inner[2], input.inner[4]>>

(***************************************************************************)
(* SpecAbs: abs() and facing_switch() on a FrameNumberNext or a Pic.  Both *)
(* are tuple structs with a public isize, so each can hold every isize.    *)
(***************************************************************************)
AbsTypes == {"FrameNumberNext", "Pic"}

AbsValues ==
    ((0 - MaxMagnitude)..MaxMagnitude) \cup {ISIZE_MIN, ISIZE_MIN + 1, ISIZE_MAX - 1, ISIZE_MAX}

InitAbs ==
    /\ pc = "start"
    /\ input \in [ty : AbsTypes, n : AbsValues]
    /\ acc = <<>>
    /\ idx = 0
    /\ calls = <<>>
    /\ result = <<>>

\* A call that returns v or panics: the call ends in one of `outcomes`.
CallEnds(fn, outcomes) ==
    /\ pc = "start"
    /\ \E o \in outcomes :
           /\ pc' = IF "panic" \in DOMAIN o THEN "panicked" ELSE "returned"
           /\ result' = <<o>>
    /\ calls' = <<fn>>
    /\ UNCHANGED <<input, acc, idx>>

FrameNumberNextAbs ==
    /\ input.ty = "FrameNumberNext"
    /\ CallEnds("abs", FrameNumberNext_abs(input.n))

FrameNumberNextFacingSwitch ==
    /\ input.ty = "FrameNumberNext"
    /\ CallEnds("facing_switch", {[value |-> FrameNumberNext_facing_switch(input.n)]})

PicAbs ==
    /\ input.ty = "Pic"
    /\ CallEnds("abs", Pic_abs(input.n))

PicFacingSwitch ==
    /\ input.ty = "Pic"
    /\ CallEnds("facing_switch", {[value |-> Pic_facing_switch(input.n)]})

NextAbs ==
    \/ FrameNumberNextAbs
    \/ FrameNumberNextFacingSwitch
    \/ PicAbs
    \/ PicFacingSwitch

SpecAbs == InitAbs /\ [][NextAbs]_vars

\* v is the absolute value of n, and not negative.
IsAbsOf(v, n) == v >= 0 /\ (v = n \/ (n < 0 /\ v + n = 0))

(***************************************************************************)
(* C28.  For every value n a FrameNumberNext or a Pic can hold (the whole  *)
(* signed machine-integer range, including the minimum), abs() returns the *)
(* absolute value |n| as a non-negative FrameNumber / usize without        *)
(* panicking or wrapping, and facing_switch() is true exactly when n < 0.  *)
(***************************************************************************)
C28_AbsTotal ==
    /\ pc # "panicked"
    /\ (pc = "returned" /\ calls = <<"abs">>) => IsAbsOf(result[1].value, input.n)
    /\ (pc = "returned" /\ calls = <<"facing_switch">>) => (result[1].value <=> input.n < 0)

\* What does hold: away from the minimum abs() returns |n|, and at the
\* minimum it panics, whichever way the crate is built.
C28_AbsExceptMin ==
    /\ (pc = "panicked") => (input.n = ISIZE_MIN /\ calls = <<"abs">>)
    /\ (pc = "returned" /\ calls = <<"abs">>) =>
           (input.n # ISIZE_MIN /\ IsAbsOf(result[1].value, input.n))
    /\ (pc = "returned" /\ calls = <<"facing_switch">>) => (result[1].value <=> input.n < 0)

(***************************************************************************)
(* SpecWait: Frame::try_from, step by step, on a complete frame with up to *)
(* MaxWaitTags `wait` tags, some before and the rest after the tags every  *)
(* frame needs.                                                            *)
(***************************************************************************)
\* The texts of a `wait` tag, and the wait each stands for, if any.
WaitCases ==
    {[text |-> <<"0">>, wait |-> Some(1)],
     [text |-> <<"1">>, wait |-> Some(1)],
     [text |-> <<"3">>, wait |-> Some(3)],
     [text |-> <<"+", "7">>, wait |-> Some(7)],
     [text |-> <<"2", "1", "4", "7", "4", "8", "3", "6", "4", "7">>, wait |-> Some(2147483647)],
     [text |-> <<"4", "2", "9", "4", "9", "6", "7", "2", "9", "6">>, wait |-> None],
     [text |-> <<"-", "1">>, wait |-> None],
     [text |-> <<"x">>, wait |-> None]}

WaitTexts == {c.text : c \in WaitCases}

WaitExpected(text) == (CHOOSE c \in WaitCases : c.text = text).wait

WaitTagNodes(texts) == [i \in 1..Len(texts) |-> FrameTagNode("TagWait", texts[i])]

\* A complete frame with the `wait` tags of texts, `before` of them first.
WaitFrame(texts, before) ==
    FrameNode(<<"0">>, <<"S">>,
              Placed(WaitTagNodes(SubSeq(texts, 1, before))
                     \o RequiredFrameTags
                     \o WaitTagNodes(SubSeq(texts, before + 1, Len(texts)))))

WaitInputs ==
    UNION {{WaitFrame(texts, before) : before \in 0..Len(texts)} :
              texts \in SeqsUpTo(WaitTexts, MaxWaitTags)}
    \cup {Node("Frames", <<>>)}

InitWait ==
    /\ pc = "start"
    /\ input \in WaitInputs
    /\ acc = FrameBuilder_default
    /\ idx = 0
    /\ calls = <<>>
    /\ result = <<>>

SpecWait == InitWait /\ [][NextFrame]_vars

\* The texts of the `wait` tags of a frame, in source order.
WaitTextsOf(frame_pair) ==
    LET tags == SelectSeq(frame_pair.inner[3].inner,
                          LAMBDA p : p.rule = "FrameTag" /\ p.inner[1].rule = "TagWait")
    IN  [i \in 1..Len(tags) |-> tags[i].inner[1].inner[1].str]

(***************************************************************************)
(* C29.  Every Wait is at least 1: Wait::from_str on text that parses as a *)
(* u32 never fails, the text `0` yields the default wait 1 and every n > 0 *)
(* yields n; only text that is not a u32 is an error.  Hence no sequence   *)
(* of frame tags can produce a Frame whose wait is 0.                      *)
(***************************************************************************)
C29_WaitPositive ==
    input.rule = "Frame" =>
        LET texts == WaitTextsOf(input)
            bad   == {i \in 1..Len(texts) : WaitExpected(texts[i]) = None}
        IN  /\ acc.wait # None => acc.wait[1] >= 1
            /\ (pc = "built" /\ bad = {}) =>
                   /\ result[1].ok
                   /\ result[1].val.wait >= 1
                   /\ result[1].val.wait =
                          IF texts = <<>> THEN 1 ELSE WaitExpected(texts[Len(texts)])[1]
            /\ (pc = "built" /\ bad # {}) =>
                   /\ ~result[1].ok
                   /\ result[1].err.variant = "ParseInt"
                   /\ result[1].err.field = "wait"
                   /\ \E i \in bad :
                          /\ \A j \in bad : i <= j
                          /\ result[1].err.value_pair.str = texts[i]

\* `wait: 3` before the other tags and `wait: 0` after them: the frame is
\* built with the default wait, 1.
C29_Witness ==
    /\ pc = "built"
    /\ input.rule = "Frame"
    /\ WaitTextsOf(input) = <<<<"3">>, <<"0">>>>
    /\ input.inner[3].inner[1].inner[1].rule = "TagWait"
    /\ result[1].ok
    /\ result[1].val.wait = 1

(***************************************************************************)
(* SpecTagEffect: parse_tag_value of each element and of Frame, called on  *)
(* one recognised tag after another, starting from the default of the      *)
(* type.  Every pair of tags of the type is tried, the same tag twice      *)
(* included, each with every text of TagEffectTexts; calls keeps the       *)
(* accumulator each call was given.                                        *)
(***************************************************************************)
TagEffectTypes == ElementKinds \cup {"Frame"}

TagEffectTexts == {<<"1">>, <<"2">>, <<"1", "0", "0", "1">>}

\* The tags the `match` of the type's parse_tag_value has an arm for.
RecognisedRules(ty) ==
    CASE ty = "Bdy"    -> {"TagKind", "TagX", "TagY", "TagW", "TagH"}
      [] ty = "BPoint" -> {"TagX", "TagY"}
      [] ty = "WPoint" -> {"TagKind", "TagX", "TagY", "TagWeaponAct", "TagAttacking",
                           "TagDVx", "TagDVy"}
      [] ty = "Frame"  -> {FrameTags[i].rule : i \in DOMAIN FrameTags}
      [] OTHER         -> {TaggedTags(ty)[i].rule : i \in DOMAIN TaggedTags(ty)}

\* `Bdy::default()` .., `FrameBuilder::default()`
TagEffectDefault(ty) ==
    CASE ty = "Bdy"    -> Bdy_default
      [] ty = "BPoint" -> BPoint_default
      [] ty = "WPoint" -> WPoint_default
      [] ty = "Frame"  -> FrameBuilder_default
      [] OTHER         -> Tagged_default(ty)

TagEffectInputs ==
    UNION {{[ty |-> ty, tags |-> <<TagNode(r1, t1), TagNode(r2, t2)>>] :
               r1 \in RecognisedRules(ty), r2 \in RecognisedRules(ty),
               t1 \in TagEffectTexts, t2 \in TagEffectTexts} :
           ty \in TagEffectTypes}

InitTagEffect ==
    /\ pc = "start"
    /\ input \in TagEffectInputs
    /\ acc = TagEffectDefault(input.ty)
    /\ idx = 0
    /\ calls = <<>>
    /\ result = <<>>

\* One call of parse_tag_value, on the next tag: `r` is what it returned.
TagEffectStep(r) ==
    /\ calls' = Append(calls, [pair |-> input.tags[idx + 1], builder |-> acc])
    /\ idx' = idx + 1
    /\ result' = <<r>>
    /\ pc' = IF r.ok THEN "start" ELSE "failed"
    /\ acc' = IF r.ok THEN r.val ELSE acc
    /\ UNCHANGED input

TagEffectNext(ty) == pc = "start" /\ idx < Len(input.tags) /\ input.ty = ty

BdyParseTagValue ==
    /\ TagEffectNext("Bdy")
    /\ TagEffectStep(Bdy_parse_tag_value(acc, input.tags[idx + 1]))

BPointParseTagValue ==
    /\ TagEffectNext("BPoint")
    /\ TagEffectStep(BPoint_parse_tag_value(acc, input.tags[idx + 1]))

WPointParseTagValue ==
    /\ TagEffectNext("WPoint")
    /\ TagEffectStep(WPoint_parse_tag_value(acc, input.tags[idx + 1]))

TaggedParseTagValue ==
    /\ \E kind \in TaggedKinds : TagEffectNext(kind)
    /\ TagEffectStep(Tagged_parse_tag_value(input.ty, acc, input.tags[idx + 1]))

FrameParseTagValue ==
    /\ TagEffectNext("Frame")
    /\ TagEffectStep(Frame_parse_tag_value(acc, input.tags[idx + 1]))

NextTagEffect ==
    \/ BdyParseTagValue
    \/ BPointParseTagValue
    \/ WPointParseTagValue
    \/ TaggedParseTagValue
    \/ FrameParseTagValue

SpecTagEffect == InitTagEffect /\ [][NextTagEffect]_vars

\* The field each tag names.
TagNamesField ==
    [TagKind |-> "kind", TagX |-> "x", TagY |-> "y", TagW |-> "w", TagH |-> "h",
     TagZWidth |-> "z_width", TagDVx |-> "d_vx", TagDVy |-> "d_vy", TagDVz |-> "d_vz",
     TagARest |-> "a_rest", TagVRest |-> "v_rest", TagFall |-> "fall",
     TagBDefend |-> "b_defend", TagInjury |-> "injury", TagEffect |-> "effect",
     TagCatchingAct |-> "catching_act", TagCaughtAct |-> "caught_act",
     TagCover |-> "cover", TagDecrease |-> "decrease", TagDirControl |-> "dir_control",
     TagHurtable |-> "hurtable", TagAAction |-> "a_action", TagJAction |-> "j_action",
     TagVAction |-> "v_action", TagTAction |-> "t_action",
     TagThrowInjury |-> "throw_injury", TagThrowVx |-> "throw_vx",
     TagThrowVy |-> "throw_vy", TagThrowVz |-> "throw_vz",
     TagFrontHurtAct |-> "front_hurt_act", TagBackHurtAct |-> "back_hurt_act",
     TagAction |-> "action", TagOid |-> "object_id", TagFacing |-> "facing",
     TagWeaponAct |-> "weapon_act", TagAttacking |-> "attacking",
     TagCenterX |-> "center_x", TagCenterY |-> "center_y", TagHitA |-> "hit_a",
     TagHitD |-> "hit_d", TagHitDa |-> "hit_da", TagHitDj |-> "hit_dj",
     TagHitFa |-> "hit_fa", TagHitFj |-> "hit_fj", TagHitJ |-> "hit_j",
     TagHitJa |-> "hit_ja", TagHitUa |-> "hit_ua", TagHitUj |-> "hit_uj",
     TagMp |-> "mp", TagNext |-> "next_frame", TagPic |-> "pic", TagSound |-> "sound",
     TagState |-> "state", TagWait |-> "wait"]

\* The accumulator after the k-th call alone, on the default of the type.
TagAlone(k) ==
    CASE input.ty = "Bdy"    -> Bdy_parse_tag_value(Bdy_default, input.tags[k])
      [] input.ty = "BPoint" -> BPoint_parse_tag_value(BPoint_default, input.tags[k])
      [] input.ty = "WPoint" -> WPoint_parse_tag_value(WPoint_default, input.tags[k])
      [] input.ty = "Frame"  -> Frame_parse_tag_value(FrameBuilder_default, input.tags[k])
      [] OTHER -> Tagged_parse_tag_value(input.ty, Tagged_default(input.ty), input.tags[k])

(***************************************************************************)
(* C30.  Parsing a recognised tag of an element or of a frame changes only *)
(* the field that the tag names, setting it to the parsed value, and       *)
(* leaves every other field of the accumulator unchanged; so the final     *)
(* record depends, for each field, only on the last occurrence of that     *)
(* field's tag.                                                            *)
(***************************************************************************)
C30_OnlyOwnField ==
    (idx >= 1 /\ result[1].ok) =>
        LET before == calls[idx].builder
            named  == TagNamesField[input.tags[idx].rule]
        IN  /\ DOMAIN acc = DOMAIN before
            /\ named \in DOMAIN acc
            /\ \A f \in DOMAIN acc \ {named} : acc[f] = before[f]
            /\ acc[named] = TagAlone(idx).val[named]
            /\ acc[named] # TagEffectDefault(input.ty)[named]
                   \/ TagAlone(idx).val = TagEffectDefault(input.ty)
            /\ idx = 2 =>
                   \A f \in DOMAIN acc :
                       acc[f] = IF f = named THEN TagAlone(2).val[f]
                                ELSE IF f = TagNamesField[input.tags[1].rule]
                                     THEN TagAlone(1).val[f]
                                     ELSE TagEffectDefault(input.ty)[f]

\* `zwidth: 2` after `injury: 1001` on an Itr: the injury stays, the z_width
\* is 2, and every other field is the default.
C30_Witness ==
    /\ input.ty = "Itr"
    /\ idx = 2
    /\ input.tags[1].rule = "TagInjury"
    /\ input.tags[2].rule = "TagZWidth"
    /\ result[1].ok
    /\ acc = [Itr_default EXCEPT !.injury = 1001, !.z_width = 2]

(***************************************************************************)
(* C9.  BdyKind::from_str on the decimal text of an integer n: 0 yields    *)
(* Normal; n in 1000..=1999 yields Hostage{freed_frame: n - 1000}; n in    *)
(* -1999..=-1000 yields Hostage{freed_frame: n + 1000}; every other        *)
(* integer is rejected with InvalidValue(n).                               *)
(***************************************************************************)
C9_BdyKindLaw ==
    (pc = "done" /\ input.ty = "BdyKind" /\ input.n # None) =>
        LET n == input.n[1] IN
            /\ input.s = IntToText(n)
            /\ result[1] =
                    IF n = 0 THEN Ok([variant |-> "Normal"])
                    ELSE IF n \in 1000..1999
                         THEN Ok([variant |-> "Hostage", freed_frame |-> n - 1000])
                    ELSE IF n \in (0 - 1999)..(0 - 1000)
                         THEN Ok([variant |-> "Hostage", freed_frame |-> n + 1000])
                    ELSE Err([variant |-> "InvalidValue", value |-> n])

\* The text `-1999` has been parsed to a hostage kind with freed frame -999.
C9_Witness ==
    /\ pc = "done"
    /\ input.ty = "BdyKind"
    /\ input.s = <<"-", "1", "9", "9", "9">>
    /\ result = <<Ok([variant |-> "Hostage", freed_frame |-> 0 - 999])>>

(***************************************************************************)
(* C10.  For Effect, CPointKind, OPointKind and WPointKind and every code  *)
(* c of the enum's code table, from_str of the decimal text of c returns   *)
(* the variant whose declared discriminant is c, and no two variants of    *)
(* one enum share a code.                                                  *)
(***************************************************************************)
C10_EnumRoundTrip ==
    (pc = "done" /\ input.ty \in EnumTypes) =>
        /\ \A c \in Codes(input.ty) :
               input.n = Some(c) =>
                   /\ input.s = IntToText(c)
                   /\ result[1].ok
                   /\ result[1].val \in Variants(input.ty)
                   /\ Discriminant(input.ty, result[1].val) = c
        /\ \A v, w \in Variants(input.ty) :
               Discriminant(input.ty, v) = Discriminant(input.ty, w) => v = w

\* The text `20` has been parsed to Effect::FireGround.
C10_Witness ==
    /\ pc = "done"
    /\ input.ty = "Effect"
    /\ input.s = <<"2", "0">>
    /\ result = <<Ok("FireGround")>>

(***************************************************************************)
(* C11.  For each enumerated tag type, from_str of the decimal text of an  *)
(* unsigned integer outside the enum's code table returns InvalidValue     *)
(* carrying that integer, and the message of that error lists every code   *)
(* of the table followed by the name of the variant declared with it.      *)
(***************************************************************************)
C11_InvalidValueMessage ==
    (/\ pc = "displayed"
     /\ input.ty \in EnumTypes
     /\ input.n # None
     /\ input.n[1] >= 0
     /\ input.n[1] \notin Codes(input.ty)) =>
        /\ result[1] = Err([variant |-> "InvalidValue", value |-> input.n[1]])
        /\ \A v \in Variants(input.ty) :
               \E i \in 1..(Len(acc[1]) - 2) :
                   /\ acc[1][i] = Str(IntToText(Discriminant(input.ty, v)))
                   /\ acc[1][i + 1] = " ("
                   /\ acc[1][i + 2] = v

====
